---- MODULE Spec2Model ----
(***************************************************************************)
(* Model of jsonlinkcheck (src/src/jsonlinkcheck/main.py): the URL checker *)
(* check_url, the record field processor process_chunk, the chunk reader   *)
(* read_jsonl_chunks_async, the statistics Statistics.add_url_check and    *)
(* the batch dispatcher process_json_file.                                 *)
(*                                                                         *)
(* Python values are encoded as follows.                                   *)
(*   Optional[x]   a set with at most one element: None is {}, x is {x}.   *)
(*   JSON value    a record [t, s, l, n]: t is "str" (s the string), "list" *)
(*                 (l the sequence of element values) or "other" (a number *)
(*                 n; neither a string nor a list).                        *)
(*   JSON object   a function from the field names present to JSON values. *)
(*   input line    a record [parses, obj]: json.loads either raises        *)
(*                 JSONDecodeError (parses = FALSE) or returns obj.        *)
(***************************************************************************)
EXTENDS Integers, Sequences, FiniteSets, TLC

VARIABLES
    call,             \* one check_url invocation: its arguments and its result
    input_lines,      \* the lines of input_file
    fields,           \* process_json_file argument: the configured field names
    chunk_size,       \* process_json_file argument
    num_threads,      \* process_json_file argument
    delete_timeouts,  \* process_json_file argument
    follow_redirects, \* process_json_file argument
    visual,           \* process_json_file argument
    net,              \* the network: what a probe of each URL probed so far answers
    pc,               \* position of process_json_file
    line_num,         \* read_jsonl_chunks_async: lines consumed so far
    chunk,            \* read_jsonl_chunks_async: the chunk being filled
    chunk_num,        \* process_json_file: number of chunks admitted
    active_tasks,     \* process_json_file: chunk indices of the current batch
    tasks,            \* the asyncio tasks, tasks[k + 1] runs chunk k
    finished_order,   \* history: chunk indices in the order their tasks ended
    chunk_files,      \* temp_dir: chunk index -> records of chunk_NNNNN.jsonl
    temp_dir,         \* whether the temporary directory exists
    output_file,      \* Optional: the records written to output_file
    timeout_urls,     \* the shared set timeout_urls
    stats,            \* Statistics.field_stats: field -> FieldStats
    main_progress,    \* the tqdm counter main_progress
    timeout_file,     \* Optional: the lines written to timeout_file
    redirects_file,   \* Optional: the lines written to redirects_file
    summary,          \* whether print_summary has been called
    caught,           \* Optional: the exception process_json_file caught
    exit_status       \* Optional: the argument of sys.exit

vars == <<call, input_lines, fields, chunk_size, num_threads, delete_timeouts,
          follow_redirects, visual, net, pc, line_num, chunk, chunk_num,
          active_tasks, tasks, finished_order, chunk_files, temp_dir,
          output_file,
          timeout_urls, stats, main_progress, timeout_file, redirects_file,
          summary, caught, exit_status>>

(***************************************************************************)
(* Bounds of the model.                                                    *)
(***************************************************************************)
MaxRetriesArg == 3
MaxLines == 3
MaxChunkSize == 2
MaxThreads == 2
MaxListLen == 2
MaxChecks == 3

(***************************************************************************)
(* Python helpers.                                                         *)
(***************************************************************************)
None == {}

Some(x) == {x}

RECURSIVE Pow2(_)
Pow2(n) == IF n = 0 THEN 1 ELSE 2 * Pow2(n - 1)

Range(s) == {s[k] : k \in DOMAIN s}

(***************************************************************************)
(* Strings and urllib.parse.urlparse.  The strings of the model and, for   *)
(* each, the scheme and netloc urlparse returns for it.                    *)
(***************************************************************************)
UrlOld == "http://a.test/old"
UrlNew == "http://a.test/new"
UrlItem == "http://b.test/item"
UrlSub == "http://a.test/old/2"
StrRel == "/rel"
StrText == "not a url"
StrMail == "mailto:x"
StrNoScheme == "//c.test/p"

Strings == {UrlOld, UrlNew, UrlItem, StrRel, StrText, StrMail, StrNoScheme, ""}

urlparse(s) ==
    CASE s = UrlOld      -> [scheme |-> "http",   netloc |-> "a.test"]
      [] s = UrlNew      -> [scheme |-> "http",   netloc |-> "a.test"]
      [] s = UrlItem     -> [scheme |-> "http",   netloc |-> "b.test"]
      [] s = UrlSub      -> [scheme |-> "http",   netloc |-> "a.test"]
      [] s = StrMail     -> [scheme |-> "mailto", netloc |-> ""]
      [] s = StrNoScheme -> [scheme |-> "",       netloc |-> "c.test"]
      [] OTHER           -> [scheme |-> "",       netloc |-> ""]

is_valid_url(url) ==
    /\ urlparse(url).scheme # ""
    /\ urlparse(url).netloc # ""

ValidUrls == {s \in Strings : is_valid_url(s)}

(***************************************************************************)
(* What one probe (session.get with allow_redirects=False) can do: answer  *)
(* with a status and possibly a Location header, exceed the timeout, fail  *)
(* with an aiohttp.ClientError, or fail with any other exception.          *)
(***************************************************************************)
Answer(status, location) ==
    [kind |-> "response", status |-> status, location |-> location]

Failure(kind) == [kind |-> kind, status |-> 0, location |-> None]

Locations == {None, Some(""), Some(UrlNew), Some(StrRel)}

Responses ==
    {Answer(st, None) : st \in {200, 404, 500}}
    \cup {Answer(st, loc) : st \in {301, 302}, loc \in Locations}
    \cup {Failure(k) : k \in {"timeout", "client_error", "exception"}}

\* The answers of the network in the runs of process_json_file.
NetResponses ==
    {Answer(200, None), Answer(301, Some(UrlNew)), Answer(404, None),
     Answer(500, None), Failure("timeout"), Failure("client_error"),
     Failure("exception")}

(***************************************************************************)
(* check_url.  The result is what the call returns or raises, together     *)
(* with the trace of its probes and of its asyncio.sleep waits.            *)
(***************************************************************************)
Return(is_valid, new_url, is_timeout, status_code, trace) ==
    [tag |-> "return", is_valid |-> is_valid, new_url |-> new_url,
     is_timeout |-> is_timeout, status_code |-> status_code, exc |-> "",
     trace |-> trace]

Raise(exc, trace) ==
    [tag |-> "raise", is_valid |-> FALSE, new_url |-> None,
     is_timeout |-> FALSE, status_code |-> None, exc |-> exc, trace |-> trace]

Probe(attempt) == [ev |-> "probe", n |-> attempt]

Sleep(secs) == [ev |-> "sleep", n |-> secs]

redirect_target_ignored(url, new_location) == url

redirect_target(url, new_location) ==
    IF new_location # None /\ new_location # Some("")
        THEN CHOOSE s \in new_location : TRUE
        ELSE url

classify_404_valid(url, response, trace) ==
    LET status == response.status IN
    IF status \in {200, 404}
        THEN Return(TRUE, Some(url), FALSE, Some(status), trace)
        ELSE Return(FALSE, None, FALSE, Some(status), trace)

classify_200_invalid(url, response, trace) ==
    LET status == response.status IN
    IF status \in {301, 302}
        THEN Return(TRUE, Some(redirect_target(url, response.location)),
                    FALSE, Some(status), trace)
        ELSE Return(FALSE, None, FALSE, Some(status), trace)

classify(url, response, trace) ==
    LET status == response.status IN
    IF status = 200
        THEN Return(TRUE, Some(url), FALSE, Some(status), trace)
    ELSE IF status \in {301, 302}
        THEN Return(TRUE, Some(redirect_target(url, response.location)),
                    FALSE, Some(status), trace)
    ELSE IF status = 404
        THEN Return(FALSE, None, FALSE, Some(status), trace)
        ELSE Return(FALSE, None, FALSE, Some(status), trace)

is_last_attempt_off_by_one(attempt, retries) == attempt = retries

is_last_attempt(attempt, retries) == attempt = retries - 1

client_error_never_final(attempt, retries) == FALSE

client_error_not_retried(attempt, retries) == TRUE

client_error_is_final(attempt, retries) == is_last_attempt(attempt, retries)

backoff_counts_from_one(trace, attempt, retries) ==
    IF attempt < retries - 1
        THEN Append(trace, Sleep(Pow2(attempt + 1)))
        ELSE trace

backoff(trace, attempt, retries) ==
    IF attempt < retries - 1
        THEN Append(trace, Sleep(Pow2(attempt)))
        ELSE trace

RECURSIVE check_url_loop(_, _, _, _, _)
check_url_loop(url, script, retries, attempt, trace) ==
    IF attempt >= retries
        THEN Return(FALSE, None, FALSE, None, trace)
        ELSE
            LET response == script[attempt + 1]
                probed == Append(trace, Probe(attempt))
            IN
            CASE response.kind = "response" ->
                    classify(url, response, probed)
              [] response.kind = "timeout" ->
                    IF is_last_attempt(attempt, retries)
                        THEN Return(FALSE, None, TRUE, None, probed)
                        ELSE check_url_loop(url, script, retries, attempt + 1,
                                            backoff(probed, attempt, retries))
              [] response.kind = "client_error" ->
                    IF client_error_is_final(attempt, retries)
                        THEN Raise("NetworkError", probed)
                        ELSE check_url_loop(url, script, retries, attempt + 1,
                                            backoff(probed, attempt, retries))
              [] OTHER ->
                    Raise("ProcessingError", probed)

check_url_retries_exception(url, script, retries) ==
    LET retried == [a \in DOMAIN script |->
                       IF script[a].kind = "exception"
                           THEN Failure("client_error")
                           ELSE script[a]]
    IN check_url_loop(url, retried, retries, 0, <<>>)

check_url(url, script, retries) == check_url_loop(url, script, retries, 0, <<>>)

MAX_RETRIES == 3

(***************************************************************************)
(* JSON values and objects.                                                *)
(***************************************************************************)
Str(s) == [t |-> "str", s |-> s, l |-> <<>>, n |-> 0]

Lst(l) == [t |-> "list", s |-> "", l |-> l, n |-> 0]

Num(n) == [t |-> "other", s |-> "", l |-> <<>>, n |-> n]

del_clears_record(obj, key) == [k \in {} |-> obj[k]]

del(obj, key) == [k \in DOMAIN obj \ {key} |-> obj[k]]

set(obj, key, value) == (key :> value) @@ obj

the(opt) == CHOOSE x \in opt : TRUE

\* Whether a parsed line is a JSON object (a dict): a JSON value of another
\* kind is the record of a value, with its four components.
is_dict(item) == DOMAIN item # DOMAIN Num(0)

(***************************************************************************)
(* FieldStats and Statistics.add_url_check.  Statistics.field_stats and    *)
(* FieldStats.domains are defaultdicts: a key is created on first access.  *)
(***************************************************************************)
FieldStats ==
    [total_urls |-> 0, valid_urls |-> 0, invalid_urls |-> 0, redirects |-> 0,
     not_found |-> 0, timeouts |-> 0, errors |-> 0, domains |-> <<>>,
     redirects_map |-> <<>>]

field_stats_fresh(st, field) == FieldStats

field_stats(st, field) == IF field \in DOMAIN st THEN st[field] ELSE FieldStats

domain_count(domains, domain) ==
    IF domain \in DOMAIN domains THEN domains[domain] ELSE 0

is_redirect(url, new_url) ==
    new_url # None /\ new_url # Some("") /\ new_url # Some(url)

count_outcome_404_as_invalid(s, url, is_valid, new_url, is_timeout, status_code) ==
    IF is_timeout
        THEN [s EXCEPT !.timeouts = @ + 1]
    ELSE IF ~is_valid
        THEN [s EXCEPT !.invalid_urls = @ + 1]
    ELSE IF is_redirect(url, new_url)
        THEN [s EXCEPT !.redirects = @ + 1, !.valid_urls = @ + 1]
        ELSE [s EXCEPT !.valid_urls = @ + 1]

count_outcome_redirect_only(s, url, is_valid, new_url, is_timeout, status_code) ==
    IF is_timeout
        THEN [s EXCEPT !.timeouts = @ + 1]
    ELSE IF ~is_valid
        THEN IF status_code = Some(404)
                THEN [s EXCEPT !.not_found = @ + 1]
                ELSE [s EXCEPT !.invalid_urls = @ + 1]
    ELSE IF is_redirect(url, new_url)
        THEN [s EXCEPT !.redirects = @ + 1]
        ELSE [s EXCEPT !.valid_urls = @ + 1]

count_outcome(s, url, is_valid, new_url, is_timeout, status_code) ==
    IF is_timeout
        THEN [s EXCEPT !.timeouts = @ + 1]
    ELSE IF ~is_valid
        THEN IF status_code = Some(404)
                THEN [s EXCEPT !.not_found = @ + 1]
                ELSE [s EXCEPT !.invalid_urls = @ + 1]
    ELSE IF is_redirect(url, new_url)
        THEN [s EXCEPT !.redirects = @ + 1, !.valid_urls = @ + 1]
        ELSE [s EXCEPT !.valid_urls = @ + 1]

add_url_check(st, field, url, is_valid, new_url, is_timeout, status_code) ==
    LET s0 == field_stats(st, field)
        domain == urlparse(url).netloc
        s1 == [s0 EXCEPT !.total_urls = @ + 1,
                         !.domains = (domain :> (domain_count(@, domain) + 1)) @@ @]
    IN  (field :> count_outcome(s1, url, is_valid, new_url, is_timeout,
                                status_code)) @@ st

append_redirect(st, field, source, target) ==
    LET s0 == field_stats(st, field) IN
    (field :> [s0 EXCEPT !.redirects_map = Append(@, <<source, target>>)]) @@ st

(***************************************************************************)
(* process_chunk.  A task runs without suspension between two awaits of    *)
(* check_url.  The cursor of a task is its position in the loops of        *)
(* process_chunk: item i of the chunk, field fi of fields, element e of a  *)
(* list value (0: the field has not been entered, or a scalar), with the   *)
(* locals processed_item, valid_urls and processed_chunk.                  *)
(***************************************************************************)
Cursor(ch) ==
    [st |-> "created", i |-> 1, fi |-> 1, e |-> 0,
     processed_item |-> IF ch = <<>> THEN <<>> ELSE ch[1],
     valid_urls |-> <<>>, processed_chunk |-> <<>>]

next_item_forgets(ch, c) ==
    [c EXCEPT !.processed_chunk = <<c.processed_item>>,
              !.i = c.i + 1, !.fi = 1, !.e = 0, !.valid_urls = <<>>,
              !.processed_item = IF c.i + 1 <= Len(ch) THEN ch[c.i + 1] ELSE <<>>]

next_item(ch, c) ==
    [c EXCEPT !.processed_chunk = Append(@, c.processed_item),
              !.i = c.i + 1, !.fi = 1, !.e = 0, !.valid_urls = <<>>,
              !.processed_item = IF c.i + 1 <= Len(ch) THEN ch[c.i + 1] ELSE <<>>]

next_field(c) == [c EXCEPT !.fi = c.fi + 1, !.e = 0, !.valid_urls = <<>>]

store_list_keep_empty(c, field, valid_urls) ==
    [c EXCEPT !.processed_item =
        set(@, field, Lst([k \in DOMAIN valid_urls |-> Str(valid_urls[k])]))]

store_list(c, field, valid_urls) ==
    IF valid_urls # <<>>
        THEN [c EXCEPT !.processed_item =
                set(@, field, Lst([k \in DOMAIN valid_urls |-> Str(valid_urls[k])]))]
        ELSE [c EXCEPT !.processed_item = del(@, field)]

\* Lines 373 and 438: the values for which check_url is called.
is_url_string_any(value) == value.t = "str"

is_url_string_scheme_only(value) ==
    value.t = "str" /\ urlparse(value.s).scheme # ""

is_url_string(value) == value.t = "str" /\ is_valid_url(value.s)

delete_field_strings_only(c, field) ==
    IF c.processed_item[field].t = "str"
        THEN [c EXCEPT !.processed_item = del(@, field)]
        ELSE c

\* Lines 480-485: a value that is neither a list nor a valid URL string.
delete_field(c, field) == [c EXCEPT !.processed_item = del(@, field)]

RECURSIVE run_to_await(_, _, _)
run_to_await(ch, flds, c) ==
    IF c.i > Len(ch)
        THEN [c EXCEPT !.st = "finished"]
    ELSE IF ~is_dict(ch[c.i])
        THEN [c EXCEPT !.st = "failed"]
    ELSE IF c.fi > Len(flds)
        THEN run_to_await(ch, flds, next_item(ch, c))
    ELSE
        LET field == flds[c.fi] IN
        IF field \notin DOMAIN c.processed_item
            THEN run_to_await(ch, flds, next_field(c))
        ELSE
            LET value == c.processed_item[field] IN
            IF value.t = "list"
                THEN
                    LET e == IF c.e = 0 THEN 1 ELSE c.e
                        valid_urls == IF c.e = 0 THEN <<>> ELSE c.valid_urls
                    IN
                    IF e > Len(value.l)
                        THEN run_to_await(ch, flds,
                                next_field(store_list(c, field, valid_urls)))
                    ELSE IF is_url_string(value.l[e])
                        THEN [c EXCEPT !.st = "awaiting", !.e = e,
                                       !.valid_urls = valid_urls]
                        ELSE run_to_await(ch, flds,
                                [c EXCEPT !.e = e + 1, !.valid_urls = valid_urls])
            ELSE IF is_url_string(value)
                THEN [c EXCEPT !.st = "awaiting", !.e = 0]
                ELSE run_to_await(ch, flds, next_field(delete_field(c, field)))

\* The field and the URL whose check_url call the cursor is awaiting.
awaited_field(flds, c) == flds[c.fi]

awaited_url(flds, c) ==
    LET value == c.processed_item[flds[c.fi]] IN
    IF value.t = "list" THEN value.l[c.e].s ELSE value.s

\* Lines 398-429: a list element after its check returned r.
keep_timeout_element(verbose, chunk_progress, del_timeouts) ==
    (verbose /\ ~chunk_progress) /\ ~del_timeouts

list_element_redirect_ignored(c, url, r, verbose, chunk_progress, del_timeouts, follow) ==
    IF r.is_timeout
        THEN IF keep_timeout_element(verbose, chunk_progress, del_timeouts)
                THEN [c EXCEPT !.valid_urls = Append(@, url), !.e = c.e + 1]
                ELSE [c EXCEPT !.e = c.e + 1]
    ELSE IF ~r.is_valid
        THEN [c EXCEPT !.e = c.e + 1]
        ELSE [c EXCEPT !.valid_urls = Append(@, url), !.e = c.e + 1]

list_element_reuses_result(c, url, r, verbose, chunk_progress, del_timeouts, follow) ==
    IF r.is_timeout \/ ~r.is_valid
        THEN [c EXCEPT !.e = c.e + 2]
        ELSE [c EXCEPT !.valid_urls = @ \o <<url, url>>, !.e = c.e + 2]

list_element(c, url, r, verbose, chunk_progress, del_timeouts, follow) ==
    IF r.is_timeout
        THEN IF keep_timeout_element(verbose, chunk_progress, del_timeouts)
                THEN [c EXCEPT !.valid_urls = Append(@, url), !.e = c.e + 1]
                ELSE [c EXCEPT !.e = c.e + 1]
    ELSE IF ~r.is_valid
        THEN [c EXCEPT !.e = c.e + 1]
    ELSE IF r.new_url # Some(url) /\ follow
        THEN [c EXCEPT !.valid_urls = Append(@, the(r.new_url)), !.e = c.e + 1]
        ELSE [c EXCEPT !.valid_urls = Append(@, url), !.e = c.e + 1]

\* Lines 450-479: a scalar field after its check returned r.
scalar_field_timeout_deleted(c, field, url, r, del_timeouts, follow) ==
    IF r.is_timeout \/ ~r.is_valid
        THEN next_field([c EXCEPT !.processed_item = del(@, field)])
    ELSE IF r.new_url # Some(url) /\ follow
        THEN next_field([c EXCEPT !.processed_item = set(@, field, Str(the(r.new_url)))])
        ELSE next_field(c)

scalar_field(c, field, url, r, del_timeouts, follow) ==
    IF r.is_timeout
        THEN IF del_timeouts
                THEN next_field([c EXCEPT !.processed_item = del(@, field)])
                ELSE next_field(c)
    ELSE IF ~r.is_valid
        THEN next_field([c EXCEPT !.processed_item = del(@, field)])
    ELSE IF r.new_url # Some(url) /\ follow
        THEN next_field([c EXCEPT !.processed_item = set(@, field, Str(the(r.new_url)))])
        ELSE next_field(c)

\* The cursor after the awaited check returned r, up to the next await.
resume(ch, flds, c, r, verbose, chunk_progress, del_timeouts, follow) ==
    LET field == awaited_field(flds, c)
        url == awaited_url(flds, c)
    IN
    IF c.processed_item[field].t = "list"
        THEN run_to_await(ch, flds,
                list_element(c, url, r, verbose, chunk_progress, del_timeouts, follow))
        ELSE run_to_await(ch, flds,
                scalar_field(c, field, url, r, del_timeouts, follow))

\* Lines 389-396, 425-427, 446-448, 477-479: the statistics after the check.
stats_after(st, field, url, r, follow) ==
    LET counted == add_url_check(st, field, url, r.is_valid, r.new_url,
                                 r.is_timeout, r.status_code)
    IN
    IF ~r.is_timeout /\ r.is_valid /\ r.new_url # Some(url) /\ follow
        THEN append_redirect(counted, field, url, the(r.new_url))
        ELSE counted

\* Lines 398-399, 450-451.
timeout_urls_after(urls, url, r) == IF r.is_timeout THEN urls \cup {url} ELSE urls

(***************************************************************************)
(* sorted(): Python orders strings by code point and tuples                *)
(* lexicographically.  StringOrder lists the strings of the model in       *)
(* ascending order.                                                        *)
(***************************************************************************)
StringOrder ==
    <<"", StrNoScheme, StrRel, UrlNew, UrlOld, UrlSub, UrlItem, StrMail, StrText>>

rank(s) == CHOOSE k \in DOMAIN StringOrder : StringOrder[k] = s

str_le(a, b) == rank(a) <= rank(b)

pair_le_descending(p, q) ==
    \/ rank(p[1]) > rank(q[1])
    \/ p[1] = q[1] /\ rank(p[2]) >= rank(q[2])

pair_le(p, q) ==
    \/ rank(p[1]) < rank(q[1])
    \/ p[1] = q[1] /\ rank(p[2]) <= rank(q[2])

RECURSIVE sorted_strings(_)
sorted_strings(S) ==
    IF S = {}
        THEN <<>>
        ELSE LET m == CHOOSE x \in S : \A y \in S : str_le(x, y)
             IN  <<m>> \o sorted_strings(S \ {m})

RECURSIVE sorted_pairs(_)
sorted_pairs(S) ==
    IF S = {}
        THEN <<>>
        ELSE LET m == CHOOSE x \in S : \A y \in S : pair_le(x, y)
             IN  <<m>> \o sorted_pairs(S \ {m})

(***************************************************************************)
(* The text of the side files.  Python compares strings by the code points *)
(* of their characters: code_points gives them for the strings of the      *)
(* model, ";" is 59 and the newline 10.                                    *)
(***************************************************************************)
code_points(s) ==
    CASE s = UrlOld      -> <<104, 116, 116, 112, 58, 47, 47, 97, 46, 116, 101, 115,
                                116, 47, 111, 108, 100>>
      [] s = UrlNew      -> <<104, 116, 116, 112, 58, 47, 47, 97, 46, 116, 101, 115,
                                116, 47, 110, 101, 119>>
      [] s = UrlItem     -> <<104, 116, 116, 112, 58, 47, 47, 98, 46, 116, 101, 115,
                                116, 47, 105, 116, 101, 109>>
      [] s = UrlSub      -> <<104, 116, 116, 112, 58, 47, 47, 97, 46, 116, 101, 115,
                                116, 47, 111, 108, 100, 47, 50>>
      [] s = StrRel      -> <<47, 114, 101, 108>>
      [] s = StrText     -> <<110, 111, 116, 32, 97, 32, 117, 114, 108>>
      [] s = StrMail     -> <<109, 97, 105, 108, 116, 111, 58, 120>>
      [] s = StrNoScheme -> <<47, 47, 99, 46, 116, 101, 115, 116, 47, 112>>
      [] OTHER           -> <<>>

\* a < b for sequences of code points, as Python orders the strings.
RECURSIVE points_lt(_, _)
points_lt(a, b) ==
    IF b = <<>>
        THEN FALSE
    ELSE IF a = <<>>
        THEN TRUE
    ELSE IF Head(a) # Head(b)
        THEN Head(a) < Head(b)
        ELSE points_lt(Tail(a), Tail(b))

\* Line 660: f"{url}\n".
format_timeout(url) == url \o "\n"

\* Line 675: f"{source};{target}\n".
format_redirect(source, target) == source \o ";" \o target \o "\n"

(***************************************************************************)
(* process_chunk_in_thread: the task of one chunk.                         *)
(***************************************************************************)
Task(ch, k) == [chunk |-> ch, chunk_num |-> k, cur |-> Cursor(ch), exc |-> ""]

\* The answers of all attempts of one check_url call on url.
script_of(network, url, retries) == [a \in 1..retries |-> network[url]]

\* process_chunk as process_chunk_in_thread calls it (verbose = False), run
\* from cursor c to its end without another task in between: what it
\* returns, and the statistics and the timeout set it leaves.  exc is the
\* exception of a check_url call that raised, "" without one.
RECURSIVE process_chunk_from(_, _, _, _, _, _, _, _, _)
process_chunk_from(ch, flds, network, chunk_progress, del_timeouts, follow, c, st, urls) ==
    IF c.st = "failed"
        THEN [processed_chunk |-> <<>>, stats |-> st,
              timeout_urls |-> urls, exc |-> "AttributeError"]
    ELSE IF c.st # "awaiting"
        THEN [processed_chunk |-> c.processed_chunk, stats |-> st,
              timeout_urls |-> urls, exc |-> ""]
        ELSE
            LET field == awaited_field(flds, c)
                url == awaited_url(flds, c)
                r == check_url(url, script_of(network, url, MAX_RETRIES),
                               MAX_RETRIES)
            IN
            IF r.tag = "raise"
                THEN [processed_chunk |-> <<>>, stats |-> st,
                      timeout_urls |-> urls, exc |-> r.exc]
                ELSE process_chunk_from(ch, flds, network, chunk_progress,
                        del_timeouts, follow,
                        resume(ch, flds, c, r, FALSE, chunk_progress,
                               del_timeouts, follow),
                        stats_after(st, field, url, r, follow),
                        timeout_urls_after(urls, url, r))

process_chunk(ch, flds, network, chunk_progress, del_timeouts, follow, st, urls) ==
    process_chunk_from(ch, flds, network, chunk_progress, del_timeouts, follow,
                       run_to_await(ch, flds, Cursor(ch)), st, urls)

inputs == <<input_lines, fields, chunk_size, num_threads, delete_timeouts,
            follow_redirects, visual>>

reader == <<line_num, chunk>>

results == <<output_file, timeout_file, redirects_file, summary, caught,
             exit_status, temp_dir>>

loop_running == pc \in {"reading", "gather", "gather_rest"}

\* Lines 530-533: the processed chunk is written to the chunk's own file.
finish_task(t, c) ==
    /\ tasks' = [tasks EXCEPT ![t] = [@ EXCEPT !.cur = [c EXCEPT !.st = "done"]]]
    /\ chunk_files' = (tasks[t].chunk_num :> c.processed_chunk) @@ chunk_files
    /\ finished_order' = Append(finished_order, tasks[t].chunk_num)

\* Line 362: item.copy() of a parsed line that is not a dict raises
\* AttributeError, which ends the task.
continue_task(t, c) ==
    IF c.st = "finished"
        THEN finish_task(t, c)
    ELSE IF c.st = "failed"
        THEN /\ tasks' = [tasks EXCEPT ![t] = [@ EXCEPT !.cur = c,
                                                       !.exc = "AttributeError"]]
             /\ finished_order' = Append(finished_order, tasks[t].chunk_num)
             /\ UNCHANGED chunk_files
        ELSE /\ tasks' = [tasks EXCEPT ![t] = [@ EXCEPT !.cur = c]]
             /\ UNCHANGED <<chunk_files, finished_order>>

\* The task starts: it runs up to its first check_url call.
TaskStart(t) ==
    /\ loop_running
    /\ tasks[t].cur.st = "created"
    /\ continue_task(t, run_to_await(tasks[t].chunk, fields, tasks[t].cur))
    /\ UNCHANGED <<call, inputs, net, reader, results, pc, chunk_num, active_tasks,
                   timeout_urls, stats, main_progress>>

\* The network answers every probe of one URL in the same way; the answer
\* is fixed when the URL is probed for the first time.
answers(url) == IF url \in DOMAIN net THEN {net[url]} ELSE NetResponses

awaited_result(t, network) ==
    check_url(awaited_url(fields, tasks[t].cur),
              script_of(network, awaited_url(fields, tasks[t].cur), MAX_RETRIES),
              MAX_RETRIES)

\* The awaited check_url call returns: statistics, timeout set and record
\* are updated and the task runs up to its next check_url call.
TaskCheckReturns(t) ==
    /\ loop_running
    /\ tasks[t].cur.st = "awaiting"
    /\ \E answer \in answers(awaited_url(fields, tasks[t].cur)) :
          net' = (awaited_url(fields, tasks[t].cur) :> answer) @@ net
    /\ awaited_result(t, net').tag = "return"
    /\ LET c == tasks[t].cur
           r == awaited_result(t, net')
           field == awaited_field(fields, c)
           url == awaited_url(fields, c)
       IN
       /\ stats' = stats_after(stats, field, url, r, follow_redirects)
       /\ timeout_urls' = timeout_urls_after(timeout_urls, url, r)
       /\ continue_task(t, resume(tasks[t].chunk, fields, c, r, FALSE, visual,
                                  delete_timeouts, follow_redirects))
    /\ UNCHANGED <<call, inputs, reader, results, pc, chunk_num, active_tasks,
                   main_progress>>

\* The awaited check_url call raises: nothing catches the exception in
\* process_chunk or process_chunk_in_thread, the task ends with it.
TaskCheckRaises(t) ==
    /\ loop_running
    /\ tasks[t].cur.st = "awaiting"
    /\ \E answer \in answers(awaited_url(fields, tasks[t].cur)) :
          net' = (awaited_url(fields, tasks[t].cur) :> answer) @@ net
    /\ awaited_result(t, net').tag = "raise"
    /\ tasks' = [tasks EXCEPT ![t] = [@ EXCEPT !.cur = [@ EXCEPT !.st = "failed"],
                                               !.exc = awaited_result(t, net').exc]]
    /\ finished_order' = Append(finished_order, tasks[t].chunk_num)
    /\ UNCHANGED <<call, inputs, reader, results, pc, chunk_num, active_tasks,
                   chunk_files, timeout_urls, stats, main_progress>>

(***************************************************************************)
(* process_json_file with read_jsonl_chunks_async.                         *)
(***************************************************************************)
window_full_above(n_active, n_threads) == n_active > n_threads

window_full(n_active, n_threads) == n_active >= n_threads

\* Lines 599-618: the loop body for a chunk the reader yielded.
admit(ch) ==
    /\ tasks' = Append(tasks, Task(ch, chunk_num))
    /\ active_tasks' = Append(active_tasks, chunk_num)
    /\ chunk_num' = chunk_num + 1
    /\ pc' = IF window_full(Len(active_tasks) + 1, num_threads)
                THEN "gather" ELSE "reading"

merge_order_descending(n) == [k \in 1..n |-> n - k]

merge_order(n) == [k \in 1..n |-> k - 1]

RECURSIVE merge(_, _)
merge(files, order) ==
    IF order = <<>>
        THEN <<>>
        ELSE (IF Head(order) \in DOMAIN files THEN files[Head(order)] ELSE <<>>)
             \o merge(files, Tail(order))

redirects_list(st) ==
    UNION {Range(st[f].redirects_map) : f \in DOMAIN st}

\* Lines 641-682 and 702-707: merge, side files, summary, cleanup.
finish ==
    /\ pc' = "done"
    /\ output_file' = Some(merge(chunk_files, merge_order(chunk_num)))
    /\ timeout_file' =
          IF timeout_urls # {}
              THEN LET urls == sorted_strings(timeout_urls) IN
                   Some([k \in DOMAIN urls |-> format_timeout(urls[k])])
              ELSE None
    /\ redirects_file' =
          IF redirects_list(stats) # {}
              THEN LET pairs == sorted_pairs(redirects_list(stats)) IN
                   Some([k \in DOMAIN pairs |->
                            format_redirect(pairs[k][1], pairs[k][2])])
              ELSE None
    /\ summary' = ~visual
    /\ temp_dir' = FALSE
    /\ chunk_files' = <<>>
    /\ UNCHANGED <<caught, exit_status>>

abort_keeps_temp_dir(exc) ==
    /\ pc' = "aborted"
    /\ caught' = Some(exc)
    /\ exit_status' = Some(1)
    /\ UNCHANGED <<temp_dir, chunk_files>>
    /\ UNCHANGED <<output_file, timeout_file, redirects_file, summary>>

\* Lines 684-707: every handler logs and calls sys.exit(1); finally removes
\* the temporary directory.
abort(exc) ==
    /\ pc' = "aborted"
    /\ caught' = Some(exc)
    /\ exit_status' = Some(1)
    /\ temp_dir' = FALSE
    /\ chunk_files' = <<>>
    /\ UNCHANGED <<output_file, timeout_file, redirects_file, summary>>

chunk_full_above(n, size) == n > size

\* Line 322: the chunk is yielded when it has chunk_size records.
chunk_full(n, size) == n >= size

skip_line_drops_chunk ==
    /\ chunk' = <<>>
    /\ UNCHANGED <<pc, chunk_num, active_tasks, tasks>>

\* Lines 329-334: json.loads raised JSONDecodeError; the error is logged and
\* the reader goes on with the next line.
skip_line == UNCHANGED <<pc, chunk, chunk_num, active_tasks, tasks>>

\* Lines 317-334: the reader consumes one line.
ReadLine ==
    /\ pc = "reading"
    /\ line_num < Len(input_lines)
    /\ line_num' = line_num + 1
    /\ LET line == input_lines[line_num + 1] IN
       IF line.parses
           THEN IF chunk_full(Len(chunk) + 1, chunk_size)
                    THEN /\ admit(Append(chunk, line.obj))
                         /\ chunk' = <<>>
                    ELSE /\ chunk' = Append(chunk, line.obj)
                         /\ UNCHANGED <<pc, chunk_num, active_tasks, tasks>>
           ELSE skip_line
    /\ UNCHANGED <<call, inputs, net, finished_order, results, chunk_files, timeout_urls, stats,
                   main_progress>>

\* Lines 336-339: at the end of the file the reader yields the last chunk.
YieldLast ==
    /\ pc = "reading"
    /\ line_num = Len(input_lines)
    /\ chunk # <<>>
    /\ admit(chunk)
    /\ chunk' = <<>>
    /\ UNCHANGED <<call, inputs, net, finished_order, line_num, results, chunk_files, timeout_urls,
                   stats, main_progress>>

EndOfInput_without_gather ==
    /\ pc = "reading"
    /\ line_num = Len(input_lines)
    /\ chunk = <<>>
    /\ finish
    /\ UNCHANGED <<call, inputs, net, finished_order, reader, chunk_num, active_tasks, tasks,
                   timeout_urls, stats, main_progress>>

\* Lines 630-632: the loop is over; with tasks left the run waits for them,
\* without it goes on to the merge.
EndOfInput ==
    /\ pc = "reading"
    /\ line_num = Len(input_lines)
    /\ chunk = <<>>
    /\ IF active_tasks # <<>>
           THEN /\ pc' = "gather_rest"
                /\ UNCHANGED <<results, chunk_files>>
           ELSE finish
    /\ UNCHANGED <<call, inputs, net, finished_order, reader, chunk_num, active_tasks, tasks,
                   timeout_urls, stats, main_progress>>

\* What Task.result() gives: process_chunk_in_thread returns None.
task_result(t) == None

all_done == \A k \in Range(active_tasks) : tasks[k + 1].cur.st = "done"

\* Lines 620-628 and 632-639: asyncio.gather returns once every task of the
\* batch is done.  With visual set the progress update subscripts the
\* results of the tasks, which are None: TypeError.
GatherReturns ==
    /\ pc \in {"gather", "gather_rest"}
    /\ all_done
    /\ IF visual /\ \E k \in Range(active_tasks) : task_result(k + 1) = None
           THEN /\ abort("TypeError")
                /\ UNCHANGED <<active_tasks, main_progress>>
           ELSE /\ main_progress' = IF visual
                                       THEN main_progress + Len(active_tasks)
                                       ELSE main_progress
                /\ IF pc = "gather"
                       THEN /\ pc' = "reading"
                            /\ active_tasks' = <<>>
                            /\ UNCHANGED <<results, chunk_files>>
                       ELSE /\ finish
                            /\ UNCHANGED active_tasks
    /\ UNCHANGED <<call, inputs, net, finished_order, reader, chunk_num, tasks, timeout_urls, stats>>

\* asyncio.gather raises the exception of a failed task of the batch as
\* soon as there is one, whatever the other tasks of the batch are doing.
GatherRaises ==
    /\ pc \in {"gather", "gather_rest"}
    /\ \E k \in Range(active_tasks) :
          /\ tasks[k + 1].cur.st = "failed"
          /\ abort(tasks[k + 1].exc)
    /\ UNCHANGED <<call, inputs, net, finished_order, reader, chunk_num, active_tasks, tasks,
                   timeout_urls, stats, main_progress>>

(***************************************************************************)
(* The runs of process_json_file.                                          *)
(***************************************************************************)
BodyScalar == ("url" :> Str(UrlOld))

BodyList == ("urls" :> Lst(<<Str(StrText), Str(UrlItem)>>))

Malformed == [parses |-> FALSE, obj |-> <<>>]

Line(body, k) == [parses |-> TRUE, obj |-> ("id" :> Num(k)) @@ body]

LineKinds == {"malformed", "scalar", "list"}

make_line(kind, k) ==
    CASE kind = "scalar" -> Line(BodyScalar, k)
      [] kind = "list"   -> Line(BodyList, k)
      [] OTHER           -> Malformed

FileKinds == UNION {[1..n -> LineKinds] : n \in 0..MaxLines}

InputFiles ==
    {[k \in DOMAIN kinds |-> make_line(kinds[k], k)] : kinds \in FileKinds}

NoCall == [url |-> "", retries |-> 0, script |-> <<>>, result |-> None]

Init ==
    /\ call = NoCall
    /\ input_lines \in InputFiles
    /\ fields = <<"url", "urls">>
    /\ chunk_size \in 1..MaxChunkSize
    /\ num_threads \in 1..MaxThreads
    /\ delete_timeouts \in BOOLEAN
    /\ follow_redirects \in BOOLEAN
    /\ visual \in BOOLEAN
    /\ net = <<>>
    /\ pc = "reading"
    /\ line_num = 0
    /\ chunk = <<>>
    /\ chunk_num = 0
    /\ active_tasks = <<>>
    /\ tasks = <<>>
    /\ finished_order = <<>>
    /\ chunk_files = <<>>
    /\ temp_dir = TRUE
    /\ output_file = None
    /\ timeout_urls = {}
    /\ stats = <<>>
    /\ main_progress = 0
    /\ timeout_file = None
    /\ redirects_file = None
    /\ summary = FALSE
    /\ caught = None
    /\ exit_status = None

Next ==
    \/ ReadLine
    \/ YieldLast
    \/ EndOfInput
    \/ GatherReturns
    \/ GatherRaises
    \/ \E t \in DOMAIN tasks : TaskStart(t)
    \/ \E t \in DOMAIN tasks : TaskCheckReturns(t)
    \/ \E t \in DOMAIN tasks : TaskCheckRaises(t)

Spec == Init /\ [][Next]_vars

(***************************************************************************)
(* The calls of check_url: any URL, any attempt budget, any answer of the  *)
(* network to each attempt.                                                *)
(***************************************************************************)
CheckCalls ==
    UNION {[url : ValidUrls, retries : {n}, script : [1..n -> Responses],
            result : {None}] : n \in 1..MaxRetriesArg}

CheckInit ==
    /\ call \in CheckCalls
    /\ input_lines = <<>>
    /\ fields = <<>>
    /\ chunk_size = 1
    /\ num_threads = 1
    /\ delete_timeouts = FALSE
    /\ follow_redirects = FALSE
    /\ visual = FALSE
    /\ net = <<>>
    /\ pc = "idle"
    /\ line_num = 0
    /\ chunk = <<>>
    /\ chunk_num = 0
    /\ active_tasks = <<>>
    /\ tasks = <<>>
    /\ finished_order = <<>>
    /\ chunk_files = <<>>
    /\ temp_dir = FALSE
    /\ output_file = None
    /\ timeout_urls = {}
    /\ stats = <<>>
    /\ main_progress = 0
    /\ timeout_file = None
    /\ redirects_file = None
    /\ summary = FALSE
    /\ caught = None
    /\ exit_status = None

CallCheckUrl ==
    /\ pc = "idle"
    /\ call.result = None
    /\ call' = [call EXCEPT
                   !.result = Some(check_url(call.url, call.script, call.retries))]
    /\ UNCHANGED <<inputs, net, reader, results, pc, chunk_num, active_tasks, tasks,
                   finished_order, chunk_files, timeout_urls, stats,
                   main_progress>>

CheckNext == CallCheckUrl

SpecCheck == CheckInit /\ [][CheckNext]_vars

(***************************************************************************)
(* The runs of process_json_file on a file of one record, over the shapes  *)
(* of value process_chunk distinguishes: a configured field is absent,     *)
(* holds a string (a URL or not), a list (of URL strings, other strings    *)
(* and non-strings, possibly empty) or another value.  "note" is a field   *)
(* that is not configured.  The network answers are fixed from the start.  *)
(***************************************************************************)
ScalarValues == {Str(UrlOld), Str(StrMail), Str(StrNoScheme), Num(0)}

ListElements == {Str(UrlOld), Str(UrlItem), Str(StrText), Num(0)}

ListValues == UNION {[1..n -> ListElements] : n \in 0..MaxListLen}

ScalarParts == {<<>>} \cup {("url" :> v) : v \in ScalarValues}

ListParts == {<<>>} \cup {("urls" :> Lst(l)) : l \in ListValues}

RecordFiles ==
    {<<Line(("note" :> Str(UrlOld)) @@ s @@ l, 1)>> :
        s \in ScalarParts, l \in ListParts}

RecordResponses ==
    {Answer(200, None), Answer(301, Some(UrlNew)), Answer(302, Some(StrRel)),
     Answer(404, None), Answer(500, None), Failure("timeout"),
     Failure("client_error")}

\* The strings of a value for which check_url is called.
url_strings(value) ==
    IF value.t = "list"
        THEN {e.s : e \in {x \in Range(value.l) : is_url_string(x)}}
    ELSE IF is_url_string(value)
        THEN {value.s}
        ELSE {}

checked_urls(obj, flds) ==
    UNION {url_strings(obj[f]) : f \in Range(flds) \cap DOMAIN obj}

RecordInit ==
    /\ call = NoCall
    /\ input_lines \in RecordFiles
    /\ fields = <<"url", "urls">>
    /\ chunk_size \in {1, 2}
    /\ num_threads = 1
    /\ delete_timeouts \in BOOLEAN
    /\ follow_redirects \in BOOLEAN
    /\ visual = FALSE
    /\ net \in [checked_urls(input_lines[1].obj, fields) -> RecordResponses]
    /\ pc = "reading"
    /\ line_num = 0
    /\ chunk = <<>>
    /\ chunk_num = 0
    /\ active_tasks = <<>>
    /\ tasks = <<>>
    /\ finished_order = <<>>
    /\ chunk_files = <<>>
    /\ temp_dir = TRUE
    /\ output_file = None
    /\ timeout_urls = {}
    /\ stats = <<>>
    /\ main_progress = 0
    /\ timeout_file = None
    /\ redirects_file = None
    /\ summary = FALSE
    /\ caught = None
    /\ exit_status = None

SpecRecord == RecordInit /\ [][Next]_vars

(***************************************************************************)
(* The runs of process_json_file on short files whose lines are of every   *)
(* kind json.loads tells apart: a malformed line, an object, and a JSON    *)
(* value that is not an object (a number).  Two of the objects hold URLs   *)
(* of which one is the beginning of the other.                             *)
(***************************************************************************)
MaxFileLines == 2

\* The strings of the short files: UrlSub is UrlOld with a further path
\* segment.
FileStrings == Strings \cup {UrlSub}

BodySub == ("url" :> Str(UrlSub))

NumberLine == [parses |-> TRUE, obj |-> Num(5)]

FileLineKinds == {"malformed", "scalar", "sub", "list", "number"}

make_file_line(kind, k) ==
    CASE kind = "scalar" -> Line(BodyScalar, k)
      [] kind = "sub"    -> Line(BodySub, k)
      [] kind = "list"   -> Line(BodyList, k)
      [] kind = "number" -> NumberLine
      [] OTHER           -> Malformed

ShortFiles ==
    {[k \in DOMAIN kinds |-> make_file_line(kinds[k], k)] :
        kinds \in UNION {[1..n -> FileLineKinds] : n \in 0..MaxFileLines}}

FilesInit ==
    /\ call = NoCall
    /\ input_lines \in ShortFiles
    /\ fields = <<"url", "urls">>
    /\ chunk_size \in {1, 2}
    /\ num_threads \in {1, 2}
    /\ delete_timeouts = FALSE
    /\ follow_redirects \in BOOLEAN
    /\ visual = FALSE
    /\ net = <<>>
    /\ pc = "reading"
    /\ line_num = 0
    /\ chunk = <<>>
    /\ chunk_num = 0
    /\ active_tasks = <<>>
    /\ tasks = <<>>
    /\ finished_order = <<>>
    /\ chunk_files = <<>>
    /\ temp_dir = TRUE
    /\ output_file = None
    /\ timeout_urls = {}
    /\ stats = <<>>
    /\ main_progress = 0
    /\ timeout_file = None
    /\ redirects_file = None
    /\ summary = FALSE
    /\ caught = None
    /\ exit_status = None

SpecFiles == FilesInit /\ [][Next]_vars

(***************************************************************************)
(* The runs of process_json_file on files in which one URL occurs again    *)
(* and again: in several records, in two fields of a record and twice in   *)
(* a list.                                                                 *)
(***************************************************************************)
MaxRepeatLines == 2

BodyRepeat ==
    ("url" :> Str(UrlOld)) @@ ("urls" :> Lst(<<Str(UrlOld), Str(UrlOld)>>))

RepeatLineKinds == {"scalar", "repeat"}

make_repeat_line(kind, k) ==
    IF kind = "scalar" THEN Line(BodyScalar, k) ELSE Line(BodyRepeat, k)

RepeatFiles ==
    {[k \in DOMAIN kinds |-> make_repeat_line(kinds[k], k)] :
        kinds \in UNION {[1..n -> RepeatLineKinds] : n \in 0..MaxRepeatLines}}

RepeatInit ==
    /\ call = NoCall
    /\ input_lines \in RepeatFiles
    /\ fields = <<"url", "urls">>
    /\ chunk_size \in {1, 2}
    /\ num_threads \in {1, 2}
    /\ delete_timeouts = FALSE
    /\ follow_redirects = FALSE
    /\ visual = FALSE
    /\ net = <<>>
    /\ pc = "reading"
    /\ line_num = 0
    /\ chunk = <<>>
    /\ chunk_num = 0
    /\ active_tasks = <<>>
    /\ tasks = <<>>
    /\ finished_order = <<>>
    /\ chunk_files = <<>>
    /\ temp_dir = TRUE
    /\ output_file = None
    /\ timeout_urls = {}
    /\ stats = <<>>
    /\ main_progress = 0
    /\ timeout_file = None
    /\ redirects_file = None
    /\ summary = FALSE
    /\ caught = None
    /\ exit_status = None

SpecRepeat == RepeatInit /\ [][Next]_vars

(***************************************************************************)
(* The runs of process_json_file in which the network answers the attempts *)
(* of every check_url call by a script: one answer per attempt, so that    *)
(* the attempts of one call may fail and be answered in different ways.    *)
(***************************************************************************)
ScriptResponses ==
    {Answer(200, None), Failure("timeout"), Failure("client_error"),
     Failure("exception")}

ScriptCalls ==
    [url : {UrlOld}, retries : {MAX_RETRIES},
     script : [1..MAX_RETRIES -> ScriptResponses], result : {None}]

ScriptLineKinds == {"malformed", "scalar"}

ScriptFiles ==
    {[k \in DOMAIN kinds |-> make_line(kinds[k], k)] :
        kinds \in UNION {[1..n -> ScriptLineKinds] : n \in 0..MaxFileLines}}

ScriptInit ==
    /\ call \in ScriptCalls
    /\ input_lines \in ScriptFiles
    /\ fields = <<"url", "urls">>
    /\ chunk_size \in 1..MaxChunkSize
    /\ num_threads \in 1..MaxThreads
    /\ delete_timeouts = FALSE
    /\ follow_redirects = FALSE
    /\ visual \in BOOLEAN
    /\ net = <<>>
    /\ pc = "reading"
    /\ line_num = 0
    /\ chunk = <<>>
    /\ chunk_num = 0
    /\ active_tasks = <<>>
    /\ tasks = <<>>
    /\ finished_order = <<>>
    /\ chunk_files = <<>>
    /\ temp_dir = TRUE
    /\ output_file = None
    /\ timeout_urls = {}
    /\ stats = <<>>
    /\ main_progress = 0
    /\ timeout_file = None
    /\ redirects_file = None
    /\ summary = FALSE
    /\ caught = None
    /\ exit_status = None

\* Lines 383 and 443: process_chunk awaits check_url with the default
\* retries.
scripted_result(t) ==
    check_url(awaited_url(fields, tasks[t].cur), call.script, MAX_RETRIES)

\* The awaited check_url call returns after the attempts the script gives.
ScriptCheckReturns(t) ==
    /\ loop_running
    /\ tasks[t].cur.st = "awaiting"
    /\ scripted_result(t).tag = "return"
    /\ LET c == tasks[t].cur
           r == scripted_result(t)
           field == awaited_field(fields, c)
           url == awaited_url(fields, c)
       IN
       /\ call' = [call EXCEPT !.result = Some(r)]
       /\ stats' = stats_after(stats, field, url, r, follow_redirects)
       /\ timeout_urls' = timeout_urls_after(timeout_urls, url, r)
       /\ continue_task(t, resume(tasks[t].chunk, fields, c, r, FALSE, visual,
                                  delete_timeouts, follow_redirects))
    /\ UNCHANGED <<inputs, net, reader, results, pc, chunk_num, active_tasks,
                   main_progress>>

\* The awaited check_url call raises and the task ends with the exception.
ScriptCheckRaises(t) ==
    /\ loop_running
    /\ tasks[t].cur.st = "awaiting"
    /\ scripted_result(t).tag = "raise"
    /\ call' = [call EXCEPT !.result = Some(scripted_result(t))]
    /\ tasks' = [tasks EXCEPT ![t] = [@ EXCEPT !.cur = [@ EXCEPT !.st = "failed"],
                                               !.exc = scripted_result(t).exc]]
    /\ finished_order' = Append(finished_order, tasks[t].chunk_num)
    /\ UNCHANGED <<inputs, net, reader, results, pc, chunk_num, active_tasks,
                   chunk_files, timeout_urls, stats, main_progress>>

ScriptNext ==
    \/ ReadLine
    \/ YieldLast
    \/ EndOfInput
    \/ GatherReturns
    \/ GatherRaises
    \/ \E t \in DOMAIN tasks : TaskStart(t)
    \/ \E t \in DOMAIN tasks : ScriptCheckReturns(t)
    \/ \E t \in DOMAIN tasks : ScriptCheckRaises(t)

SpecScript == ScriptInit /\ [][ScriptNext]_vars

\* The event loop of asyncio.run does not stop while the coroutine of
\* process_json_file or the task of a chunk can go on, and every probe of
\* check_url ends (answer, timeout or error), so that an awaited call
\* returns or raises.
ScriptFairness == WF_vars(ScriptNext)

SpecScriptFair == ScriptInit /\ [][ScriptNext]_vars /\ ScriptFairness

(***************************************************************************)
(* The sequential variant, linkcheck.py.  check_url makes one attempt and  *)
(* catches what it raises; process_chunk handles string values only;       *)
(* process_json_file processes one chunk after the other and writes each   *)
(* processed chunk to the output file, which it opened before the loop.    *)
(* delete_timeouts is the negation of its keep_timeout_urls, chunk_num its *)
(* chunks_processed.                                                       *)
(***************************************************************************)
seq_is_valid_url(url) ==
    /\ urlparse(url).scheme # ""
    /\ urlparse(url).netloc # ""

seq_check_url_raises(url, response) ==
    IF response.kind = "response"
        THEN Return(response.status = 200, None, FALSE, Some(response.status),
                    <<Probe(0)>>)
        ELSE Raise("NetworkError", <<Probe(0)>>)

seq_check_url(url, response) ==
    LET trace == <<Probe(0)>>
        status == response.status
    IN
    CASE response.kind = "response" ->
            IF status = 200
                THEN Return(TRUE, Some(url), FALSE, Some(status), trace)
            ELSE IF status \in {301, 302}
                THEN IF response.location \notin {None, Some("")}
                        THEN Return(TRUE, response.location, FALSE, Some(status), trace)
                        ELSE Return(TRUE, Some(url), FALSE, Some(status), trace)
            ELSE IF status = 404
                THEN Return(FALSE, None, FALSE, Some(status), trace)
                ELSE Return(FALSE, None, FALSE, Some(status), trace)
      [] response.kind = "timeout" ->
            Return(FALSE, None, TRUE, None, trace)
      [] OTHER ->
            Return(FALSE, None, FALSE, None, trace)

SeqFieldStats ==
    [total_urls |-> 0, valid_urls |-> 0, invalid_urls |-> 0, redirects |-> 0,
     not_found |-> 0, timeouts |-> 0, errors |-> 0, domains |-> <<>>]

seq_add_url_check(st, field, url, is_valid, new_url, is_timeout, status_code) ==
    LET s0 == IF field \in DOMAIN st THEN st[field] ELSE SeqFieldStats
        domain == urlparse(url).netloc
        s1 == [s0 EXCEPT !.total_urls = @ + 1,
                         !.domains = (domain :> (domain_count(@, domain) + 1)) @@ @]
        s2 == IF is_timeout
                  THEN [s1 EXCEPT !.timeouts = @ + 1]
              ELSE IF ~is_valid
                  THEN IF status_code = Some(404)
                          THEN [s1 EXCEPT !.not_found = @ + 1]
                          ELSE [s1 EXCEPT !.invalid_urls = @ + 1]
              ELSE IF new_url \notin {None, Some(""), Some(url)}
                  THEN [s1 EXCEPT !.redirects = @ + 1, !.valid_urls = @ + 1]
                  ELSE [s1 EXCEPT !.valid_urls = @ + 1]
    IN  (field :> s2) @@ st

\* The position of process_chunk in its loops: item i, field fi.
SeqCursor(ch) ==
    [st |-> "created", i |-> 1, fi |-> 1,
     processed_item |-> IF ch = <<>> THEN <<>> ELSE ch[1],
     processed_chunk |-> <<>>]

seq_next_item(ch, c) ==
    [c EXCEPT !.processed_chunk = Append(@, c.processed_item),
              !.i = c.i + 1, !.fi = 1,
              !.processed_item = IF c.i + 1 <= Len(ch) THEN ch[c.i + 1] ELSE <<>>]

seq_next_field(c) == [c EXCEPT !.fi = c.fi + 1]

seq_delete_field(c, field) == [c EXCEPT !.processed_item = del(@, field)]

\* process_chunk from cursor c up to its next await of check_url, or to its
\* end.
RECURSIVE seq_run_to_await(_, _, _)
seq_run_to_await(ch, flds, c) ==
    IF c.i > Len(ch)
        THEN [c EXCEPT !.st = "finished"]
    ELSE IF c.fi > Len(flds)
        THEN seq_run_to_await(ch, flds, seq_next_item(ch, c))
    ELSE
        LET field == flds[c.fi] IN
        IF field \notin DOMAIN c.processed_item
            THEN seq_run_to_await(ch, flds, seq_next_field(c))
        ELSE
            LET value == c.processed_item[field] IN
            IF value.t = "str" /\ seq_is_valid_url(value.s)
                THEN [c EXCEPT !.st = "awaiting"]
                ELSE seq_run_to_await(ch, flds,
                        seq_next_field(seq_delete_field(c, field)))

\* The cursor after the awaited check returned r.
seq_resume(c, field, url, r, keep_timeout_urls, follow) ==
    IF r.is_timeout
        THEN IF ~keep_timeout_urls
                THEN seq_next_field(seq_delete_field(c, field))
                ELSE seq_next_field(c)
    ELSE IF ~r.is_valid
        THEN seq_next_field(seq_delete_field(c, field))
    ELSE IF r.new_url # Some(url) /\ follow
        THEN seq_next_field([c EXCEPT !.processed_item =
                                set(@, field, Str(the(r.new_url)))])
        ELSE seq_next_field(c)

SeqTask(ch, k) == [chunk |-> ch, chunk_num |-> k, cur |-> SeqCursor(ch)]

seq_rest == <<num_threads, visual, active_tasks, finished_order, chunk_files,
              temp_dir, redirects_file, main_progress, caught, exit_status,
              input_lines, fields, chunk_size, delete_timeouts, follow_redirects>>

\* read_jsonl_chunks yields chunk ch to the loop of process_json_file.
seq_yield(ch) ==
    /\ chunk_num' = chunk_num + 1
    /\ tasks' = Append(tasks, SeqTask(ch, chunk_num + 1))
    /\ chunk' = <<>>
    /\ pc' = "chunk"

\* process_chunk has run to cursor c: it is suspended in check_url, or it
\* has returned and the loop writes the processed chunk to the output.
seq_continue(c) ==
    IF c.st = "finished"
        THEN /\ tasks' = [tasks EXCEPT ![Len(tasks)].cur = [c EXCEPT !.st = "done"]]
             /\ output_file' = Some(the(output_file) \o c.processed_chunk)
             /\ pc' = "reading"
        ELSE /\ tasks' = [tasks EXCEPT ![Len(tasks)].cur = c]
             /\ pc' = "awaiting"
             /\ UNCHANGED output_file

SeqReadLine ==
    /\ pc = "reading"
    /\ line_num < Len(input_lines)
    /\ line_num' = line_num + 1
    /\ LET line == input_lines[line_num + 1] IN
       IF line.parses
           THEN IF Len(chunk) + 1 >= chunk_size
                    THEN seq_yield(Append(chunk, line.obj))
                    ELSE /\ chunk' = Append(chunk, line.obj)
                         /\ UNCHANGED <<pc, chunk_num, tasks>>
           ELSE UNCHANGED <<pc, chunk, chunk_num, tasks>>
    /\ UNCHANGED <<call, net, output_file, timeout_urls, stats, timeout_file,
                   summary, seq_rest>>

SeqYieldLast ==
    /\ pc = "reading"
    /\ line_num = Len(input_lines)
    /\ chunk # <<>>
    /\ seq_yield(chunk)
    /\ UNCHANGED <<call, net, line_num, output_file, timeout_urls, stats,
                   timeout_file, summary, seq_rest>>

SeqStart ==
    /\ pc = "chunk"
    /\ LET t == tasks[Len(tasks)] IN
       seq_continue(seq_run_to_await(t.chunk, fields, t.cur))
    /\ UNCHANGED <<call, net, line_num, chunk, chunk_num, timeout_urls, stats,
                   timeout_file, summary, seq_rest>>

SeqCheckReturns ==
    /\ pc = "awaiting"
    /\ LET t == tasks[Len(tasks)]
           c == t.cur
           field == fields[c.fi]
           url == c.processed_item[field].s
       IN
       \E answer \in answers(url) :
           LET r == seq_check_url(url, answer) IN
           /\ net' = (url :> answer) @@ net
           /\ call' = [url |-> url, retries |-> 1, script |-> <<answer>>,
                       result |-> Some(r)]
           /\ stats' = seq_add_url_check(stats, field, url, r.is_valid, r.new_url,
                                         r.is_timeout, r.status_code)
           /\ timeout_urls' = IF r.is_timeout THEN timeout_urls \cup {url}
                                              ELSE timeout_urls
           /\ seq_continue(seq_run_to_await(t.chunk, fields,
                  seq_resume(c, field, url, r, ~delete_timeouts, follow_redirects)))
    /\ UNCHANGED <<line_num, chunk, chunk_num, timeout_file, summary, seq_rest>>

\* The loop is over: the timeout file and the summary.
SeqEnd ==
    /\ pc = "reading"
    /\ line_num = Len(input_lines)
    /\ chunk = <<>>
    /\ pc' = "done"
    /\ timeout_file' =
          IF timeout_urls # {}
              THEN LET urls == sorted_strings(timeout_urls) IN
                   Some([k \in DOMAIN urls |-> format_timeout(urls[k])])
              ELSE None
    /\ summary' = TRUE
    /\ UNCHANGED <<call, net, line_num, chunk, chunk_num, tasks, output_file,
                   timeout_urls, stats, seq_rest>>

SeqInit ==
    /\ call = NoCall
    /\ input_lines \in InputFiles
    /\ fields = <<"url", "urls">>
    /\ chunk_size \in 1..MaxChunkSize
    /\ num_threads = 1
    /\ delete_timeouts \in BOOLEAN
    /\ follow_redirects \in BOOLEAN
    /\ visual = FALSE
    /\ net = <<>>
    /\ pc = "reading"
    /\ line_num = 0
    /\ chunk = <<>>
    /\ chunk_num = 0
    /\ active_tasks = <<>>
    /\ tasks = <<>>
    /\ finished_order = <<>>
    /\ chunk_files = <<>>
    /\ temp_dir = FALSE
    /\ output_file = Some(<<>>)
    /\ timeout_urls = {}
    /\ stats = <<>>
    /\ main_progress = 0
    /\ timeout_file = None
    /\ redirects_file = None
    /\ summary = FALSE
    /\ caught = None
    /\ exit_status = None

SeqNext ==
    \/ SeqReadLine
    \/ SeqYieldLast
    \/ SeqStart
    \/ SeqCheckReturns
    \/ SeqEnd

SpecSeq == SeqInit /\ [][SeqNext]_vars

(***************************************************************************)
(* The calls of Statistics.add_url_check: any sequence of calls with any   *)
(* arguments.                                                              *)
(***************************************************************************)
RECURSIVE sum_total_urls(_, _)
sum_total_urls(st, F) ==
    IF F = {}
        THEN 0
        ELSE LET f == CHOOSE x \in F : TRUE
             IN  st[f].total_urls + sum_total_urls(st, F \ {f})

\* Line 182: sum(s.total_urls for s in self.field_stats.values()).
total_urls(st) == sum_total_urls(st, DOMAIN st)

StatusCodes == {None, Some(200), Some(301), Some(404), Some(500)}

StatsInit ==
    /\ call = NoCall
    /\ input_lines = <<>>
    /\ fields = <<"url", "urls">>
    /\ chunk_size = 1
    /\ num_threads = 1
    /\ delete_timeouts = FALSE
    /\ follow_redirects = FALSE
    /\ visual = FALSE
    /\ net = <<>>
    /\ pc = "stats"
    /\ line_num = 0
    /\ chunk = <<>>
    /\ chunk_num = 0
    /\ active_tasks = <<>>
    /\ tasks = <<>>
    /\ finished_order = <<>>
    /\ chunk_files = <<>>
    /\ temp_dir = FALSE
    /\ output_file = None
    /\ timeout_urls = {}
    /\ stats = <<>>
    /\ main_progress = 0
    /\ timeout_file = None
    /\ redirects_file = None
    /\ summary = FALSE
    /\ caught = None
    /\ exit_status = None

AddUrlCheck ==
    /\ pc = "stats"
    /\ total_urls(stats) < MaxChecks
    /\ \E field \in Range(fields), url \in ValidUrls, is_valid \in BOOLEAN,
          is_timeout \in BOOLEAN, status_code \in StatusCodes :
          \E new_url \in {None, Some(""), Some(url), Some(UrlNew)} :
              stats' = add_url_check(stats, field, url, is_valid, new_url,
                                     is_timeout, status_code)
    /\ UNCHANGED <<call, inputs, net, reader, results, pc, chunk_num,
                   active_tasks, tasks, finished_order, chunk_files,
                   timeout_urls, main_progress>>

StatsNext == AddUrlCheck

SpecStats == StatsInit /\ [][StatsNext]_vars

(***************************************************************************)
(* Properties of check_url, checked under SpecCheck.                       *)
(***************************************************************************)
result == the(call.result)

probes(trace) == Cardinality({k \in DOMAIN trace : trace[k].ev = "probe"})

all_attempts(kind) == \A a \in DOMAIN call.script : call.script[a].kind = kind

\* Attempt a receives a response and every attempt before it failed with a
\* timeout or a transport error, so that attempt a is made.
answered_at(a) ==
    /\ call.script[a].kind = "response"
    /\ \A b \in 1..(a - 1) : call.script[b].kind \in {"timeout", "client_error"}

swap_failures(script) ==
    [a \in DOMAIN script |->
        CASE script[a].kind = "timeout"      -> Failure("client_error")
          [] script[a].kind = "client_error" -> Failure("timeout")
          [] OTHER                           -> script[a]]

\* C3: when every attempt of check_url(url, timeout, retries = n) times out,
\* exactly n probes are made and the call returns valid = false,
\* timed_out = true, no resolved URL and no status code.
C3_AllTimeouts ==
    (call.result # None /\ all_attempts("timeout")) =>
        /\ probes(result.trace) = call.retries
        /\ result.tag = "return"
        /\ ~result.is_valid
        /\ result.is_timeout
        /\ result.new_url = None
        /\ result.status_code = None

C3_Witness ==
    /\ call.result # None
    /\ all_attempts("timeout")
    /\ call.retries = MAX_RETRIES
    /\ probes(result.trace) = MAX_RETRIES
    /\ result.is_timeout

\* C4: transport errors are retried like timeouts: exchanging timeouts and
\* transport errors in the answers leaves the probes and waits of the call
\* unchanged; when every attempt fails with a transport error the call makes
\* all its attempts and raises NetworkError instead of returning an outcome.
C4_TransportErrors ==
    call.result # None =>
        /\ check_url(call.url, swap_failures(call.script), call.retries).trace
              = result.trace
        /\ all_attempts("client_error") =>
              /\ result.tag = "raise"
              /\ result.exc = "NetworkError"
              /\ probes(result.trace) = call.retries

C4_Witness ==
    /\ call.result # None
    /\ all_attempts("client_error")
    /\ call.retries = MAX_RETRIES
    /\ result.tag = "raise"
    /\ result.exc = "NetworkError"
    /\ probes(result.trace) = MAX_RETRIES

\* C6: a received response is classified by its status alone and ends the
\* call without a further attempt: 200 is valid with the probed URL as
\* resolved URL, 404 is invalid, every status other than 200, 301, 302 is
\* invalid; timed_out is false and status_code is the received status.
C6_StatusClassification ==
    call.result # None =>
        \A a \in DOMAIN call.script :
            answered_at(a) =>
                LET status == call.script[a].status IN
                /\ result.tag = "return"
                /\ probes(result.trace) = a
                /\ result.trace[Len(result.trace)] = Probe(a - 1)
                /\ ~result.is_timeout
                /\ result.status_code = Some(status)
                /\ status = 200 =>
                      result.is_valid /\ result.new_url = Some(call.url)
                /\ status = 404 => ~result.is_valid
                /\ status \notin {200, 301, 302} => ~result.is_valid

C6_Witness ==
    /\ call.result # None
    /\ call.script[1] = Answer(404, None)
    /\ ~result.is_valid
    /\ result.status_code = Some(404)
    /\ probes(result.trace) = 1

\* C7: a 301 or 302 response ends the call after that one hop: with a
\* non-empty Location header the outcome is valid with the header value,
\* verbatim, as resolved URL; without the header it is valid with the probed
\* URL as resolved URL.
C7_RedirectOneHop ==
    call.result # None =>
        \A a \in DOMAIN call.script :
            (answered_at(a) /\ call.script[a].status \in {301, 302}) =>
                LET location == call.script[a].location IN
                /\ result.tag = "return"
                /\ result.is_valid
                /\ probes(result.trace) = a
                /\ location \notin {None, Some("")} => result.new_url = location
                /\ location = None => result.new_url = Some(call.url)

C7_Witness ==
    /\ call.result # None
    /\ call.script[1] = Answer(302, Some(StrRel))
    /\ result.is_valid
    /\ result.new_url = Some(StrRel)
    /\ probes(result.trace) = 1

\* Attempt a (from 0) of the call failed with a timeout or a transport
\* error.
failed_attempt(a) == call.script[a + 1].kind \in {"timeout", "client_error"}

\* C29: in the trace of a check_url call every wait stands between two
\* consecutive attempts, lasts 2^attempt seconds for the attempt (counted
\* from 0) before it, and follows an attempt that failed and is retried;
\* every attempt but the first is preceded by such a wait; nothing follows
\* the last attempt, whether it is the final one or received a response.
C29_Backoff ==
    call.result # None =>
        LET tr == result.trace IN
        /\ \A k \in DOMAIN tr :
              tr[k].ev = "sleep" =>
                  /\ 1 < k /\ k < Len(tr)
                  /\ tr[k - 1].ev = "probe"
                  /\ tr[k].n = 2 ^ tr[k - 1].n
                  /\ tr[k + 1] = Probe(tr[k - 1].n + 1)
                  /\ failed_attempt(tr[k - 1].n)
                  /\ tr[k - 1].n < call.retries - 1
        /\ \A k \in DOMAIN tr :
              (tr[k].ev = "probe" /\ tr[k].n > 0) =>
                  (k > 1 /\ tr[k - 1] = Sleep(2 ^ (tr[k].n - 1)))
        /\ tr # <<>> /\ tr[Len(tr)].ev = "probe"
        /\ \A a \in 0..(call.retries - 1) :
              (a + 1 \in DOMAIN call.script /\ answered_at(a + 1)) =>
                  tr[Len(tr)] = Probe(a)

\* A call of three attempts that all time out: waits of 1 s and 2 s.
C29_Witness ==
    /\ call.result # None
    /\ call.retries = 3
    /\ all_attempts("timeout")
    /\ result.trace = <<Probe(0), Sleep(1), Probe(1), Sleep(2), Probe(2)>>

\* Every attempt of the call fails, with a timeout or a transport error.
all_attempts_fail == \A a \in DOMAIN call.script : failed_attempt(a - 1)

\* Both kinds of failure occur among the attempts of the call.
mixed_failures ==
    /\ all_attempts_fail
    /\ \E a \in DOMAIN call.script : call.script[a].kind = "timeout"
    /\ \E a \in DOMAIN call.script : call.script[a].kind = "client_error"

final_failure == call.script[call.retries].kind

\* C33: when the attempts of one check_url call fail in a mixture of
\* timeouts and transport errors, all attempts are made and the result
\* depends only on the kind of the final attempt's failure: a final timeout
\* returns invalid, timed out, without resolved URL or status, whatever the
\* earlier failures were; a final transport error raises NetworkError,
\* whatever the earlier failures were; the call never falls through to the
\* result invalid and not timed out.
C33_FinalFailureDecides ==
    (call.result # None /\ all_attempts_fail) =>
        /\ probes(result.trace) = call.retries
        /\ final_failure = "timeout" =>
              /\ result.tag = "return"
              /\ ~result.is_valid
              /\ result.is_timeout
              /\ result.new_url = None
              /\ result.status_code = None
        /\ final_failure = "client_error" =>
              /\ result.tag = "raise"
              /\ result.exc = "NetworkError"
        /\ result.tag = "return" => result.is_timeout

\* Three attempts: two timeouts, then a transport error; NetworkError after
\* the third probe.
C33_Witness ==
    /\ call.result # None
    /\ mixed_failures
    /\ call.retries = 3
    /\ call.script[1].kind = "timeout"
    /\ call.script[2].kind = "timeout"
    /\ call.script[3].kind = "client_error"
    /\ result.tag = "raise"
    /\ result.exc = "NetworkError"
    /\ probes(result.trace) = 3

(***************************************************************************)
(* Properties of process_json_file and its tasks, checked under Spec.      *)
(***************************************************************************)
terminal(t) == tasks[t].cur.st \in {"done", "failed"}

in_flight == {t \in DOMAIN tasks : ~terminal(t)}

parsed_lines == SelectSeq(input_lines, LAMBDA line : line.parses)

parsed_ids == [k \in DOMAIN parsed_lines |-> parsed_lines[k].obj["id"].n]

output_ids == [k \in DOMAIN the(output_file) |-> the(output_file)[k]["id"].n]

\* C1: a run that completes has written the records to the output in the
\* order of their input lines, whatever the order in which the tasks ended.
C1_OutputInInputOrder ==
    pc = "done" => (output_file # None /\ output_ids = parsed_ids)

C1_Witness ==
    /\ pc = "done"
    /\ output_file # None
    /\ Len(parsed_ids) >= 2
    /\ output_ids = parsed_ids
    /\ \E j, k \in DOMAIN finished_order :
          j < k /\ finished_order[j] > finished_order[k]

\* C2: at most num_threads admitted tasks are not yet terminal, and a chunk
\* is admitted only while fewer than num_threads tasks are in flight and
\* every task of the batches before the current one is terminal.
C2_Admission ==
    chunk_num' # chunk_num =>
        /\ Cardinality(in_flight) < num_threads
        /\ \A t \in DOMAIN tasks :
              (t - 1) \notin Range(active_tasks) => terminal(t)

C2_BoundedWindow ==
    /\ [](Cardinality(in_flight) <= num_threads)
    /\ [][C2_Admission]_vars

C2_Witness ==
    /\ num_threads = 2
    /\ chunk_num = 3
    /\ terminal(1)
    /\ terminal(2)
    /\ ~terminal(3)
    /\ active_tasks = <<2>>

\* C5: the failure of a single URL check never aborts the run.
C5_UrlFailureNeverAborts ==
    pc = "aborted" => \A t \in DOMAIN tasks : tasks[t].cur.st # "failed"

\* C8: an element of a list-valued configured field whose check ends in a
\* timeout is kept in the output list when delete_timeouts is false.
C8_ListTimeoutKept ==
    \A t \in DOMAIN tasks :
        tasks[t].cur.st = "done" =>
            \A i \in DOMAIN tasks[t].chunk, f \in Range(fields) :
                LET record == tasks[t].chunk[i]
                    out == tasks[t].cur.processed_chunk[i]
                IN
                (f \in DOMAIN record /\ record[f].t = "list" /\ ~delete_timeouts) =>
                    \A e \in DOMAIN record[f].l :
                        LET element == record[f].l[e] IN
                        (/\ element.t = "str"
                         /\ is_valid_url(element.s)
                         /\ element.s \in DOMAIN net
                         /\ net[element.s].kind = "timeout") =>
                            /\ f \in DOMAIN out
                            /\ element \in Range(out[f].l)

\* A step of task t in which its awaited check_url call returns.
check_returns(t) ==
    /\ tasks[t].cur.st = "awaiting"
    /\ tasks'[t].cur # tasks[t].cur
    /\ tasks'[t].cur.st # "failed"

\* Item i of task t after the step.
item_after(t, i) ==
    IF tasks'[t].cur.i = i
        THEN tasks'[t].cur.processed_item
        ELSE tasks'[t].cur.processed_chunk[i]

\* C9: when the check of a scalar field with a syntactically valid URL ends
\* in a timeout, the field is kept unchanged if delete_timeouts is false and
\* deleted if it is true; the URL is inserted into timeout_urls and the
\* timeouts counter of the field grows by one.
C9_Step(t) ==
    LET c == tasks[t].cur
        field == awaited_field(fields, c)
        value == c.processed_item[field]
    IN
    (check_returns(t) /\ value.t = "str" /\ net'[value.s].kind = "timeout") =>
        /\ delete_timeouts => field \notin DOMAIN item_after(t, c.i)
        /\ ~delete_timeouts =>
              /\ field \in DOMAIN item_after(t, c.i)
              /\ item_after(t, c.i)[field] = value
        /\ value.s \in timeout_urls'
        /\ field_stats(stats', field).timeouts
              = field_stats(stats, field).timeouts + 1

C9_ScalarTimeout == [][\A t \in DOMAIN tasks : C9_Step(t)]_vars

C9_Witness ==
    /\ ~delete_timeouts
    /\ UrlOld \in DOMAIN net
    /\ net[UrlOld].kind = "timeout"
    /\ UrlOld \in timeout_urls
    /\ "url" \in DOMAIN stats
    /\ stats["url"].timeouts = 1
    /\ \E t \in DOMAIN tasks :
          /\ tasks[t].cur.st = "done"
          /\ "url" \in DOMAIN tasks[t].chunk[1]
          /\ "url" \in DOMAIN tasks[t].cur.processed_chunk[1]
          /\ tasks[t].cur.processed_chunk[1]["url"] = Str(UrlOld)

\* The list being built for the awaited field of task t after the step.
list_after(t, c) ==
    LET d == tasks'[t].cur
        field == awaited_field(fields, c)
    IN
    IF d.st = "awaiting" /\ d.i = c.i /\ d.fi = c.fi
        THEN d.valid_urls
    ELSE IF field \in DOMAIN item_after(t, c.i)
        THEN [k \in DOMAIN item_after(t, c.i)[field].l |->
                item_after(t, c.i)[field].l[k].s]
        ELSE <<>>

\* C10: when the check of a URL is valid with a resolved URL different from
\* the original, the field value or list element becomes the resolved URL
\* and the pair (source, target) is appended to the redirect map if
\* follow_redirects is set, and stays the original URL if not; in both cases
\* the redirects counter of the field grows by one.
C10_Step(t) ==
    LET c == tasks[t].cur
        field == awaited_field(fields, c)
        value == c.processed_item[field]
        url == awaited_url(fields, c)
        answer == net'[url]
    IN
    (/\ check_returns(t)
     /\ answer.kind = "response"
     /\ answer.status \in {301, 302}
     /\ answer.location \notin {None, Some(""), Some(url)}) =>
        LET target == the(answer.location)
            kept == IF follow_redirects THEN target ELSE url
        IN
        /\ value.t = "str" =>
              /\ field \in DOMAIN item_after(t, c.i)
              /\ item_after(t, c.i)[field] = Str(kept)
        /\ value.t = "list" =>
              /\ list_after(t, c) # <<>>
              /\ list_after(t, c)[Len(list_after(t, c))] = kept
        /\ follow_redirects =>
              field_stats(stats', field).redirects_map
                 = Append(field_stats(stats, field).redirects_map, <<url, target>>)
        /\ field_stats(stats', field).redirects
              = field_stats(stats, field).redirects + 1

C10_Redirect == [][\A t \in DOMAIN tasks : C10_Step(t)]_vars

C10_Witness ==
    /\ follow_redirects
    /\ UrlItem \in DOMAIN net
    /\ net[UrlItem] = Answer(301, Some(UrlNew))
    /\ "urls" \in DOMAIN stats
    /\ stats["urls"].redirects = 1
    /\ <<UrlItem, UrlNew>> \in Range(stats["urls"].redirects_map)
    /\ \E t \in DOMAIN tasks :
          /\ tasks[t].cur.st = "done"
          /\ "urls" \in DOMAIN tasks[t].chunk[1]
          /\ "urls" \in DOMAIN tasks[t].cur.processed_chunk[1]
          /\ tasks[t].cur.processed_chunk[1]["urls"].l[1] = Str(UrlNew)

(***************************************************************************)
(* Properties of process_chunk on one record, checked under SpecRecord.    *)
(***************************************************************************)
record == input_lines[1].obj

completed == pc = "done" /\ output_file # None

\* The record of a completed run in the output.
out == the(output_file)[1]

\* C11: a scalar string field whose URL is syntactically valid and whose
\* check returns invalid without timeout is deleted from the output record,
\* whatever delete_timeouts and follow_redirects are; a 404 is counted in
\* not_found and not in invalid_urls, every other status in invalid_urls.
C11_ScalarInvalid ==
    completed =>
        \A f \in Range(fields) :
            (/\ f \in DOMAIN record
             /\ record[f].t = "str"
             /\ is_valid_url(record[f].s)
             /\ net[record[f].s].kind = "response"
             /\ net[record[f].s].status \notin {200, 301, 302}) =>
                LET status == net[record[f].s].status IN
                /\ f \notin DOMAIN out
                /\ field_stats(stats, f).not_found = (IF status = 404 THEN 1 ELSE 0)
                /\ field_stats(stats, f).invalid_urls = (IF status = 404 THEN 0 ELSE 1)

C11_Witness ==
    /\ completed
    /\ ~delete_timeouts
    /\ follow_redirects
    /\ "url" \in DOMAIN record
    /\ record["url"] = Str(UrlOld)
    /\ net[UrlOld] = Answer(404, None)
    /\ "url" \notin DOMAIN out
    /\ field_stats(stats, "url").not_found = 1
    /\ field_stats(stats, "url").invalid_urls = 0

\* The check of url passed: a response with status 200, 301 or 302.
live(url) ==
    net[url].kind = "response" /\ net[url].status \in {200, 301, 302}

\* The resolved URL of a URL whose check passed.
resolved(url) ==
    IF net[url].status \in {301, 302} /\ net[url].location \notin {None, Some("")}
        THEN the(net[url].location)
        ELSE url

\* The elements of list l that are syntactically valid URL strings whose
\* check passed, in the order of l, each as it is written to the output.
survivors(l) ==
    LET kept == SelectSeq(l, LAMBDA e :
                    e.t = "str" /\ is_valid_url(e.s) /\ live(e.s))
    IN  [k \in DOMAIN kept |->
            Str(IF follow_redirects THEN resolved(kept[k].s) ELSE kept[k].s)]

C13_Frame ==
    completed =>
        /\ \A f \in DOMAIN record \ Range(fields) :
              f \in DOMAIN out /\ out[f] = record[f]
        /\ DOMAIN out \subseteq DOMAIN record
        /\ (Range(fields) \cap DOMAIN record = {}) => out = record

C13_Witness ==
    /\ completed
    /\ "url" \notin DOMAIN record
    /\ "urls" \in DOMAIN record
    /\ record["urls"] = Lst(<<Str(UrlOld)>>)
    /\ net[UrlOld] = Answer(404, None)
    /\ record["note"] = Str(UrlOld)
    /\ out = ("id" :> Num(1)) @@ ("note" :> Str(UrlOld))

\* The syntactically valid URL strings of a field value, in order.
occurrences(value) ==
    IF value.t = "list"
        THEN SelectSeq(value.l, LAMBDA e : e.t = "str" /\ is_valid_url(e.s))
    ELSE IF value.t = "str" /\ is_valid_url(value.s)
        THEN <<value>>
        ELSE <<>>

\* The strings of a field value that fail is_valid_url.
rejected(value) ==
    IF value.t = "list"
        THEN {e.s : e \in {x \in Range(value.l) : x.t = "str" /\ ~is_valid_url(x.s)}}
    ELSE IF value.t = "str" /\ ~is_valid_url(value.s)
        THEN {value.s}
        ELSE {}

outcome_sum(s) ==
    s.valid_urls + s.invalid_urls + s.not_found + s.timeouts + s.errors

\* C14: a string, scalar field value or list element, that fails
\* is_valid_url is removed from the output like an unreachable URL, no
\* check_url call is made for it, and no counter of any field changes
\* because of it: the counters and the per-domain counts of every field
\* account for the syntactically valid URLs of the field and nothing else.
C14_SyntaxInvalid ==
    /\ \A t \in DOMAIN tasks :
          tasks[t].cur.st = "awaiting" =>
              is_valid_url(awaited_url(fields, tasks[t].cur))
    /\ completed =>
          \A f \in Range(fields) \cap DOMAIN record :
              LET occ == occurrences(record[f])
                  s == field_stats(stats, f)
              IN
              /\ (record[f].t = "str" /\ rejected(record[f]) # {}) =>
                    f \notin DOMAIN out
              /\ f \in DOMAIN out =>
                    \A x \in rejected(record[f]) : Str(x) \notin Range(out[f].l)
              /\ occ = <<>> => f \notin DOMAIN stats
              /\ s.total_urls = Len(occ)
              /\ outcome_sum(s) = Len(occ)
              /\ \A d \in DOMAIN s.domains :
                    s.domains[d] = Cardinality({k \in DOMAIN occ :
                                        urlparse(occ[k].s).netloc = d})

C14_Witness ==
    /\ completed
    /\ "url" \in DOMAIN record
    /\ "urls" \in DOMAIN record
    /\ record["url"] = Str(StrNoScheme)
    /\ record["urls"] = Lst(<<Str(StrText), Str(UrlItem)>>)
    /\ net[UrlItem] = Answer(200, None)
    /\ "url" \notin DOMAIN out
    /\ out["urls"] = Lst(<<Str(UrlItem)>>)
    /\ DOMAIN net = {UrlItem}
    /\ DOMAIN stats = {"urls"}
    /\ stats["urls"].total_urls = 1
    /\ DOMAIN stats["urls"].domains = {"b.test"}

\* The number of strings of a field value that fail is_valid_url.
n_rejected(value) ==
    IF value.t = "list"
        THEN Cardinality({k \in DOMAIN value.l :
                value.l[k].t = "str" /\ ~is_valid_url(value.l[k].s)})
    ELSE IF value.t = "str" /\ ~is_valid_url(value.s)
        THEN 1
        ELSE 0

\* The number of syntactically valid URLs of a field value whose check got
\* a response with a status other than 200, 301, 302 and 404.
n_dead(value) ==
    Cardinality({k \in DOMAIN occurrences(value) :
        LET answer == net[occurrences(value)[k].s] IN
        answer.kind = "response" /\ answer.status \notin {200, 301, 302, 404}})

\* A string that fails is_valid_url is not in the output value of field f.
rejected_dropped(f) ==
    /\ (record[f].t = "str" /\ rejected(record[f]) # {}) => f \notin DOMAIN out
    /\ f \in DOMAIN out =>
          \A x \in rejected(record[f]) : Str(x) \notin Range(out[f].l)

\* C15 as stated: a string that fails the structural validation is dropped
\* and is counted in invalid_urls of its field.
C15_SyntaxInvalidCounted ==
    completed =>
        \A f \in Range(fields) \cap DOMAIN record :
            /\ rejected_dropped(f)
            /\ field_stats(stats, f).invalid_urls
                  = n_dead(record[f]) + n_rejected(record[f])

\* C15, amended: a string that fails the structural validation is dropped
\* and is not counted: invalid_urls of a field counts the checked URLs of
\* the field answered with a status other than 200, 301, 302 and 404, and
\* nothing else.
C15_SyntaxInvalidNotCounted ==
    completed =>
        \A f \in Range(fields) \cap DOMAIN record :
            /\ rejected_dropped(f)
            /\ field_stats(stats, f).invalid_urls = n_dead(record[f])

C15_Witness ==
    /\ completed
    /\ "url" \in DOMAIN record
    /\ "urls" \in DOMAIN record
    /\ record["url"] = Str(StrMail)
    /\ record["urls"] = Lst(<<Str(StrText), Str(UrlOld)>>)
    /\ net[UrlOld] = Answer(500, None)
    /\ "url" \notin DOMAIN out
    /\ "urls" \notin DOMAIN out
    /\ field_stats(stats, "url").invalid_urls = 0
    /\ field_stats(stats, "urls").invalid_urls = 1

\* The URL occurrences the record field processor examines in a run: line,
\* field and position of every syntactically valid URL string of a
\* configured field.
examined ==
    LET lines == parsed_lines IN
    UNION {UNION {{<<k, f, e>> :
                      e \in DOMAIN occurrences(lines[k].obj[f])} :
                  f \in Range(fields) \cap DOMAIN lines[k].obj} :
           k \in DOMAIN lines}

\* A step of task t in which its awaited check_url call ends: it returns or
\* it raises.
check_ends(t) ==
    /\ tasks[t].cur.st = "awaiting"
    /\ tasks'[t].cur # tasks[t].cur

C16_Step ==
    total_urls(stats') =
        total_urls(stats) + (IF \E t \in DOMAIN tasks : check_ends(t)
                                THEN 1 ELSE 0)

\* C16: every URL the record field processor examines, scalar field value
\* or list element, gives exactly one add_url_check call: the sum over the
\* fields of total_urls grows by one in every step that ends the check of
\* a URL and in no other step, and at the end of a run that completes it is
\* the number of URL occurrences examined in scalar and list fields
\* together.
C16_OneCallPerUrl ==
    /\ [](completed => total_urls(stats) = Cardinality(examined))
    /\ [][C16_Step]_vars

(***************************************************************************)
(* Properties of Statistics.add_url_check, checked under SpecStats.        *)
(***************************************************************************)
\* C17 as stated: after any sequence of add_url_check calls the counters of
\* a field other than total_urls (valid, invalid, redirects, not found,
\* timeouts, errors) sum to the total_urls of the field.
C17_CountersSum ==
    \A f \in DOMAIN stats :
        stats[f].valid_urls + stats[f].invalid_urls + stats[f].redirects
           + stats[f].not_found + stats[f].timeouts + stats[f].errors
        = stats[f].total_urls

\* C17, amended: after any sequence of add_url_check calls the counters
\* valid_urls, invalid_urls, not_found, timeouts and errors of a field sum
\* to its total_urls; redirects counts a part of valid_urls and is left
\* out of the sum.
C17_OutcomePartition ==
    \A f \in DOMAIN stats :
        /\ outcome_sum(stats[f]) = stats[f].total_urls
        /\ stats[f].redirects <= stats[f].valid_urls

C17_Witness ==
    /\ pc = "stats"
    /\ "url" \in DOMAIN stats
    /\ stats["url"].total_urls = 3
    /\ stats["url"].redirects = 1
    /\ stats["url"].valid_urls = 1
    /\ stats["url"].timeouts = 1
    /\ stats["url"].not_found = 1

(***************************************************************************)
(* Properties of the statistics and of the chunking, checked under Spec.   *)
(***************************************************************************)
\* The URL of an examined occurrence.
url_at(x) == occurrences(parsed_lines[x[1]].obj[x[2]])[x[3]].s

\* The number of examined occurrences in field f whose URL satisfies P.
n_checks(f, P(_)) ==
    Cardinality({x \in examined : x[2] = f /\ P(url_at(x))})

timed_out(url) == net[url].kind = "timeout"

answered_404(url) == net[url].kind = "response" /\ net[url].status = 404

answered_dead(url) ==
    net[url].kind = "response" /\ net[url].status \notin {200, 301, 302, 404}

redirected(url) == live(url) /\ resolved(url) # url

\* C18: whatever the interleaving of the chunk workers, no statistics
\* update is lost: at the end of a run total_urls, the outcome counters and
\* the per-domain counts of every field are the numbers of checks made for
\* the field, by any worker, with that outcome or domain, and the redirect
\* list of the field holds every recorded pair as often as it was recorded.
C18_NoLostUpdate ==
    completed =>
        \A f \in Range(fields) :
            LET s == field_stats(stats, f) IN
            /\ s.total_urls = n_checks(f, LAMBDA u : TRUE)
            /\ s.valid_urls = n_checks(f, live)
            /\ s.redirects = n_checks(f, redirected)
            /\ s.invalid_urls = n_checks(f, answered_dead)
            /\ s.not_found = n_checks(f, answered_404)
            /\ s.timeouts = n_checks(f, timed_out)
            /\ s.errors = 0
            /\ \A u \in ValidUrls :
                  n_checks(f, LAMBDA v : urlparse(v).netloc = urlparse(u).netloc)
                     = domain_count(s.domains, urlparse(u).netloc)
            /\ \A u, v \in Strings :
                  Cardinality({k \in DOMAIN s.redirects_map :
                                  s.redirects_map[k] = <<u, v>>})
                     = IF follow_redirects
                          THEN n_checks(f, LAMBDA w :
                                  w = u /\ redirected(w) /\ resolved(w) = v)
                          ELSE 0

C18_Witness ==
    /\ completed
    /\ num_threads = 2
    /\ Len(tasks) = 3
    /\ field_stats(stats, "url").total_urls = 2
    /\ follow_redirects
    /\ field_stats(stats, "url").redirects = 2
    /\ field_stats(stats, "url").redirects_map
          = <<(<<UrlOld, UrlNew>>), (<<UrlOld, UrlNew>>)>>
    /\ domain_count(field_stats(stats, "url").domains, "a.test") = 2
    /\ field_stats(stats, "urls").total_urls = 1
    /\ \E j, k \in DOMAIN finished_order :
          j < k /\ finished_order[j] > finished_order[k]

\* The run with chunk size 1: every record is a chunk of its own, the
\* chunks are processed one after the other in the order of the input.
RECURSIVE one_by_one(_, _, _, _)
one_by_one(records, written, st, urls) ==
    IF records = <<>>
        THEN [output |-> written, stats |-> st, timeout_urls |-> urls]
        ELSE LET p == process_chunk(<<Head(records)>>, fields, net, visual,
                                    delete_timeouts, follow_redirects, st, urls)
             IN  one_by_one(Tail(records), written \o p.processed_chunk,
                            p.stats, p.timeout_urls)

chunk_size_1 ==
    one_by_one([k \in DOMAIN parsed_lines |-> parsed_lines[k].obj], <<>>, <<>>, {})

\* Sequences a and b hold the same elements, each as often.
same_bag(a, b) ==
    \A x \in Range(a) \cup Range(b) :
        Cardinality({k \in DOMAIN a : a[k] = x})
           = Cardinality({k \in DOMAIN b : b[k] = x})

\* Statistics s and t agree in every counter and per-domain count and hold
\* the same redirect pairs.
same_statistics(s, t) ==
    /\ DOMAIN s = DOMAIN t
    /\ \A f \in DOMAIN s :
          /\ [s[f] EXCEPT !.redirects_map = <<>>]
                = [t[f] EXCEPT !.redirects_map = <<>>]
          /\ same_bag(s[f].redirects_map, t[f].redirects_map)

\* C19: for a fixed input, fixed flags and a network that answers every
\* probe of a URL in the same way, a run with any chunk size writes the
\* same multiset of output records as the run with chunk size 1, and ends
\* with the same statistics and the same timeout set.
C19_ChunkSizeIndependent ==
    completed =>
        /\ same_bag(the(output_file), chunk_size_1.output)
        /\ same_statistics(stats, chunk_size_1.stats)
        /\ timeout_urls = chunk_size_1.timeout_urls

C19_Witness ==
    /\ completed
    /\ chunk_size = 2
    /\ Len(parsed_lines) = 3
    /\ Len(tasks) = 2
    /\ Len(tasks[1].chunk) = 2
    /\ Len(the(output_file)) = 3
    /\ same_bag(the(output_file), chunk_size_1.output)
    /\ timeout_urls = {UrlOld}
    /\ "url" \in DOMAIN the(output_file)[1]
    /\ "urls" \in DOMAIN stats

(***************************************************************************)
(* The second run on the output of a run, checked under SpecRecord.        *)
(***************************************************************************)
\* The network of the second run: every probe is answered with 200.
AllAnswer200 == [s \in Strings |-> Answer(200, None)]

\* The records a run with follow_redirects set and delete_timeouts = d
\* writes for the output of the completed run as its input.
rerun(d) ==
    process_chunk(the(output_file), fields, AllAnswer200, FALSE, d, TRUE,
                  <<>>, {}).processed_chunk

\* The strings left in the configured fields of the output.
remaining ==
    UNION {IF out[f].t = "list"
              THEN {e.s : e \in {x \in Range(out[f].l) : x.t = "str"}}
              ELSE IF out[f].t = "str" THEN {out[f].s} ELSE {}
           : f \in Range(fields) \cap DOMAIN out}

\* C20 as stated: a second run with follow_redirects set on the output of a
\* run, in which every probe is answered with 200, changes no field.
C20_Idempotent ==
    completed => \A d \in BOOLEAN : rerun(d) = the(output_file)

\* C20, amended: a second run with follow_redirects set on the output of a
\* run, in which every probe is answered with 200, changes no field,
\* provided every string left in the configured fields of the output,
\* every resolved redirect target the first run wrote included, is an
\* absolute URL that passes is_valid_url.
C20_IdempotentAbsolute ==
    (completed /\ \A x \in remaining : is_valid_url(x)) =>
        \A d \in BOOLEAN : rerun(d) = the(output_file)

C20_Witness ==
    /\ completed
    /\ follow_redirects
    /\ "url" \in DOMAIN record
    /\ "urls" \in DOMAIN record
    /\ record["url"] = Str(UrlOld)
    /\ record["urls"] = Lst(<<Str(UrlItem), Str(StrText)>>)
    /\ net[UrlOld] = Answer(301, Some(UrlNew))
    /\ net[UrlItem] = Failure("timeout")
    /\ out["url"] = Str(UrlNew)
    /\ "urls" \notin DOMAIN out
    /\ remaining = {UrlNew}
    /\ rerun(TRUE) = the(output_file)


(***************************************************************************)
(* Properties of the runs on short files (SpecFiles).                      *)
(***************************************************************************)
\* The reader has just consumed a line json.loads rejected.
read_malformed ==
    /\ line_num' = line_num + 1
    /\ ~input_lines[line_num'].parses

\* C21: a completed run has written exactly one output record for each line
\* that parses, wherever the malformed lines stand (last line of a chunk or
\* of the file included); reading a malformed line changes neither the
\* chunk being built nor the tasks, and does not end the run.
C21_OneRecordPerParsedLine ==
    /\ [](completed => Len(the(output_file)) = Len(parsed_lines))
    /\ [][read_malformed =>
            /\ chunk' = chunk
            /\ tasks' = tasks
            /\ pc' = "reading"]_vars

\* A completed run on a file whose last line is malformed and closes a
\* chunk that is not full.
C21_Witness ==
    /\ completed
    /\ chunk_size = 2
    /\ Len(input_lines) = 2
    /\ input_lines[1].parses
    /\ ~input_lines[2].parses
    /\ Len(the(output_file)) = 1


\* The lines of the two side files; a file that is not written has none.
timeout_lines == IF timeout_file = None THEN <<>> ELSE the(timeout_file)

redirect_lines == IF redirects_file = None THEN <<>> ELSE the(redirects_file)

\* The URLs of the run whose check timed out, and the redirects recorded.
timed_out_urls == {url_at(x) : x \in {y \in examined : timed_out(url_at(y))}}

recorded_pairs ==
    IF follow_redirects
        THEN {<<url_at(x), resolved(url_at(x))>> :
                 x \in {y \in examined : redirected(url_at(y))}}
        ELSE {}

\* The URL of a line of the timeout file, the pair of a line of the
\* redirects file, and the code points of the lines.
url_of(line) == CHOOSE u \in FileStrings : format_timeout(u) = line

pair_of(line) ==
    CHOOSE p \in FileStrings \X FileStrings :
        format_redirect(p[1], p[2]) = line

timeout_points(line) == code_points(url_of(line)) \o <<10>>

redirect_points(line) ==
    code_points(pair_of(line)[1]) \o <<59>> \o code_points(pair_of(line)[2])
        \o <<10>>

pair_lt(p, q) ==
    \/ points_lt(code_points(p[1]), code_points(q[1]))
    \/ p[1] = q[1] /\ points_lt(code_points(p[2]), code_points(q[2]))

timeout_file_sorted ==
    /\ Range(timeout_lines) = {format_timeout(u) : u \in timed_out_urls}
    /\ \A k \in 1..(Len(timeout_lines) - 1) :
          points_lt(timeout_points(timeout_lines[k]),
                    timeout_points(timeout_lines[k + 1]))

redirect_file_content ==
    Range(redirect_lines)
        = {format_redirect(p[1], p[2]) : p \in recorded_pairs}

\* C26 as stated: after a completed run the timeout file holds the distinct
\* timed-out URLs, one per line, ascending and without duplicates, and the
\* redirects file holds the distinct recorded pairs as lines source;target,
\* the lines ascending and without duplicates.
C26_SideFilesSortedLines ==
    completed =>
        /\ timeout_file_sorted
        /\ redirect_file_content
        /\ \A k \in 1..(Len(redirect_lines) - 1) :
              points_lt(redirect_points(redirect_lines[k]),
                        redirect_points(redirect_lines[k + 1]))

\* C26, amended: the lines of the redirects file are in the ascending order
\* of the pairs (by source, then by target), without duplicates, which is
\* not the order of the lines as text when one source is the beginning of
\* another; the content of both files and the order of the timeout file are
\* as stated, whatever the order in which the chunks were processed.
C26_SideFilesSortedPairs ==
    completed =>
        /\ timeout_file_sorted
        /\ redirect_file_content
        /\ \A k \in 1..(Len(redirect_lines) - 1) :
              pair_lt(pair_of(redirect_lines[k]), pair_of(redirect_lines[k + 1]))

\* A completed run whose second chunk ended first, with two redirects
\* recorded: the line of the longer source stands second.
C26_Witness ==
    /\ completed
    /\ finished_order = <<1, 0>>
    /\ redirect_lines = <<format_redirect(UrlOld, UrlNew),
                          format_redirect(UrlSub, UrlNew)>>
    /\ timeout_lines = <<>>

(***************************************************************************)
(* How a run ends (Spec).                                                  *)
(***************************************************************************)
\* C22: when the run is aborted for a chunk that failed, every other chunk
\* of the batch being awaited has reached a terminal state (done or failed).
C22_AbortAfterBatch ==
    pc = "aborted" => \A k \in Range(active_tasks) : terminal(k + 1)

\* C23: when the run has ended, every chunk that was admitted is done or
\* failed, and the output has been merged from the chunk files of the
\* indices 0..chunk_num-1, a failed chunk standing in it with nothing.
C23_ChunksEndAndMerge ==
    pc \in {"done", "aborted"} =>
        /\ \A t \in DOMAIN tasks : terminal(t)
        /\ output_file # None

\* C24: a run that is aborted has printed the summary of the statistics
\* before it exits with a non-zero status.
C24_SummaryOnAbort ==
    pc = "aborted" => (summary /\ exit_status = Some(1))

\* C25: with the progress display on, the completion of a batch advances
\* the progress counter by the batch and the run goes on, with the next
\* batch or with the merge.
C25_BatchCompletionProceeds ==
    [][(visual /\ pc \in {"gather", "gather_rest"} /\ all_done) =>
            /\ pc' \in {"reading", "done"}
            /\ main_progress' > main_progress]_vars

\* C27: the checks of the URLs of one chunk are in flight together: no
\* check of a chunk is started only when another check of the same chunk
\* has returned.
C27_ChecksInFlightTogether ==
    [][\A t \in DOMAIN tasks :
          (tasks[t].cur.st = "awaiting" /\ tasks'[t].cur # tasks[t].cur)
              => tasks'[t].cur.st # "awaiting"]_vars

(***************************************************************************)
(* A configured field that holds neither a string nor a list (SpecRecord). *)
(***************************************************************************)
\* C28: a configured field whose value is neither a string nor a list is
\* deleted from the output record; no task ever awaits a check for such a
\* value, and the statistics get no entry for the field from it.
C28_OtherValueDeleted ==
    /\ \A t \in DOMAIN tasks :
          tasks[t].cur.st = "awaiting" =>
              record[awaited_field(fields, tasks[t].cur)].t # "other"
    /\ completed =>
          \A f \in Range(fields) \cap DOMAIN record :
              record[f].t = "other" => (f \notin DOMAIN out /\ f \notin DOMAIN stats)

\* A completed run on a record whose field url holds a number and whose
\* field urls holds a list of which an element was checked and kept.
C28_Witness ==
    /\ completed
    /\ "url" \in DOMAIN record
    /\ record["url"] = Num(0)
    /\ "url" \notin DOMAIN out
    /\ "urls" \in DOMAIN out
    /\ DOMAIN stats = {"urls"}

(***************************************************************************)
(* The chunks of a run (Spec).                                             *)
(***************************************************************************)
\* The records of the lines read so far that parse, in input order.
records_read ==
    LET read == SelectSeq(SubSeq(input_lines, 1, line_num),
                          LAMBDA line : line.parses)
    IN  [k \in DOMAIN read |-> read[k].obj]

\* The chunks yielded to the first n tasks, one after the other.
RECURSIVE yielded(_)
yielded(n) == IF n = 0 THEN <<>> ELSE yielded(n - 1) \o tasks[n].chunk

reader_at_end == line_num = Len(input_lines) /\ chunk = <<>>

\* The state of the chunks: the chunks yielded so far, followed by the chunk
\* being built, are the parseable records read so far in input order; a
\* yielded chunk is not empty and has at most chunk_size records, exactly
\* chunk_size unless it is the last chunk of the file; chunk t carries the
\* index t - 1, and the chunk file of an index holds the records of the
\* chunk of that index.
chunks_in_order ==
    /\ yielded(Len(tasks)) \o chunk = records_read
    /\ Len(chunk) < chunk_size
    /\ chunk_num = Len(tasks)
    /\ \A t \in DOMAIN tasks :
          /\ tasks[t].chunk_num = t - 1
          /\ 1 <= Len(tasks[t].chunk)
          /\ Len(tasks[t].chunk) <= chunk_size
          /\ Len(tasks[t].chunk) < chunk_size =>
                (t = Len(tasks) /\ reader_at_end)
    /\ \A k \in DOMAIN chunk_files :
          /\ k + 1 \in DOMAIN tasks
          /\ tasks[k + 1].cur.st = "done"
          /\ Len(chunk_files[k]) = Len(tasks[k + 1].chunk)
    /\ temp_dir =>
          \A t \in DOMAIN tasks :
              tasks[t].cur.st = "done" => (t - 1) \in DOMAIN chunk_files

\* A step gives at most one chunk an index, the next one, and leaves the
\* chunks and indices given before as they are.
index_step ==
    /\ chunk_num' \in {chunk_num, chunk_num + 1}
    /\ chunk_num' = chunk_num + 1 =>
          (Len(tasks') = Len(tasks) + 1 /\ tasks'[Len(tasks')].chunk_num = chunk_num)
    /\ \A t \in DOMAIN tasks :
          /\ t \in DOMAIN tasks'
          /\ tasks'[t].chunk = tasks[t].chunk
          /\ tasks'[t].chunk_num = tasks[t].chunk_num

\* C30: the chunks the reader yields are, one after the other, the parseable
\* records in input order; every chunk has at most chunk_size records,
\* every chunk but the last exactly chunk_size, and none is empty; the
\* dispatcher gives the chunks the indices 0, 1, 2, ... in the order they
\* are read, each index to one chunk and one chunk file, once and for all.
C30_Chunking == []chunks_in_order /\ [][index_step]_vars

\* Three records read with chunk_size 2: a full chunk with index 0 and a
\* last chunk of one record with index 1, both written and merged.
C30_Witness ==
    /\ pc = "done"
    /\ chunk_size = 2
    /\ Len(tasks) = 2
    /\ Len(tasks[1].chunk) = 2
    /\ Len(tasks[2].chunk) = 1
    /\ tasks[2].chunk_num = 1
    /\ Len(the(output_file)) = 3

(***************************************************************************)
(* Repeated URLs (SpecRepeat).                                             *)
(***************************************************************************)
\* The places of chunk ch at which a syntactically valid URL string stands
\* in a configured field: record, field and list position (0 for a scalar).
places(ch, flds) ==
    UNION {UNION {LET value == ch[i][flds[fi]] IN
                  IF value.t = "list"
                      THEN {<<i, fi, e>> : e \in {x \in DOMAIN value.l :
                                value.l[x].t = "str" /\ is_valid_url(value.l[x].s)}}
                  ELSE IF value.t = "str" /\ is_valid_url(value.s)
                      THEN {<<i, fi, 0>>}
                      ELSE {} :
                  fi \in {x \in DOMAIN flds : flds[x] \in DOMAIN ch[i]}} :
           i \in DOMAIN ch}

place_lt(p, q) ==
    \/ p[1] < q[1]
    \/ p[1] = q[1] /\ p[2] < q[2]
    \/ p[1] = q[1] /\ p[2] = q[2] /\ p[3] < q[3]

\* The place whose check a suspended task is awaiting.
place_of(c) == <<c.i, c.fi, c.e>>

\* The places of task t's chunk that come after the cursor c.
places_after(t, c) ==
    IF c.st = "created"
        THEN places(tasks[t].chunk, fields)
        ELSE {p \in places(tasks[t].chunk, fields) : place_lt(place_of(c), p)}

\* A step of task t goes to the check of the very next place of its chunk,
\* and ends the task only when no place is left or the check raised.
next_place_checked(t) ==
    LET c == tasks[t].cur
        d == tasks'[t].cur
        left == places_after(t, c)
    IN
    d # c =>
        \/ d.st = "failed"
        \/ left = {} /\ d.st = "done"
        \/ /\ left # {}
           /\ d.st = "awaiting"
           /\ place_of(d) \in left
           /\ \A p \in left : ~place_lt(p, place_of(d))

\* C31: nothing is cached: a task starts a check_url call of its own at
\* every place of its chunk where a syntactically valid URL stands, also for
\* a URL whose answer is known from an earlier check, and a run that
\* completes has counted one check for each place, so a URL that occurs k
\* times is checked and counted k times.
C31_NoCaching ==
    /\ [][\A t \in DOMAIN tasks : next_place_checked(t)]_vars
    /\ [](completed => total_urls(stats) = Cardinality(examined))

\* A completed run in which the one URL of the input was checked six
\* times: in two records of different chunks, in both fields and twice in
\* each list.
C31_Witness ==
    /\ completed
    /\ Len(tasks) = 2
    /\ DOMAIN net = {UrlOld}
    /\ Cardinality(examined) = 6
    /\ total_urls(stats) = 6
    /\ field_stats(stats, "url").total_urls = 2
    /\ field_stats(stats, "urls").total_urls = 4

(***************************************************************************)
(* The sequential variant (SpecSeq).                                       *)
(***************************************************************************)
\* The last check_url call failed: it got no response.
call_failed == call.script[1].kind # "response"

first_exception_at(a) ==
    /\ a \in DOMAIN call.script
    /\ call.script[a].kind = "exception"
    /\ \A b \in 1..(a - 1) : call.script[b].kind \in {"timeout", "client_error"}

processing_error(t) == tasks[t].cur.st = "failed" /\ tasks[t].exc = "ProcessingError"

\* The check_url call a task awaits ends in this step.
call_ends(t) ==
    /\ tasks[t].cur.st = "awaiting"
    /\ t \in DOMAIN tasks'
    /\ tasks'[t].cur # tasks[t].cur

raised_at_once(t) ==
    \A a \in DOMAIN call.script :
        (call_ends(t) /\ first_exception_at(a)) =>
            /\ call'.result # None
            /\ the(call'.result).tag = "raise"
            /\ the(call'.result).exc = "ProcessingError"
            /\ probes(the(call'.result).trace) = a
            /\ the(call'.result).trace[Len(the(call'.result).trace)] = Probe(a - 1)
            /\ tasks'[t].cur.st = "failed"
            /\ tasks'[t].exc = "ProcessingError"

run_ends_with_exit_1 ==
    (\E t \in DOMAIN tasks : processing_error(t)) =>
        /\ pc # "done"
        /\ output_file = None
        /\ pc # "aborted" => ENABLED ScriptNext
        /\ pc \in {"gather", "gather_rest"} => ENABLED GatherRaises
        /\ pc = "aborted" =>
              /\ caught = Some("ProcessingError")
              /\ exit_status = Some(1)

\* C34: an exception of a probe that is neither a timeout nor a transport
\* error is never retried: at its first occurrence, on whatever attempt,
\* check_url raises ProcessingError after that probe; the task of the chunk
\* ends with it, the run never completes, and it ends in the handler of
\* ProcessingError with exit status 1.
C34_ProcessingErrorAborts ==
    /\ [][\A t \in DOMAIN tasks : raised_at_once(t)]_vars
    /\ []run_ends_with_exit_1

\* A timeout, a transport error, then an exception on the third attempt:
\* the run is aborted with exit status 1.
C34_Witness ==
    /\ pc = "aborted"
    /\ call.script = <<Failure("timeout"), Failure("client_error"),
                       Failure("exception")>>
    /\ call.result # None
    /\ result.tag = "raise"
    /\ result.exc = "ProcessingError"
    /\ probes(result.trace) = 3
    /\ caught = Some("ProcessingError")
    /\ exit_status = Some(1)
    /\ \E t \in DOMAIN tasks : processing_error(t)

(***************************************************************************)
(* Termination (SpecScriptFair).                                           *)
(***************************************************************************)
\* A check_url call ends after at most retries probes.
calls_bounded == call.result # None => probes(result.trace) <= call.retries

\* The task of a chunk is over: it wrote its chunk file, it ended with an
\* exception, or the run was aborted, after which asyncio.run cancels the
\* tasks still pending.
task_over(t) ==
    /\ t \in DOMAIN tasks
    /\ tasks[t].cur.st \in {"done", "failed"} \/ pc = "aborted"

run_aborted == pc = "aborted" /\ exit_status = Some(1)

run_over == completed \/ run_aborted

\* When the run is over no task and no wait for a batch is left.
nothing_pending ==
    run_over =>
        /\ \A t \in DOMAIN tasks : task_over(t)
        /\ pc \notin {"gather", "gather_rest"}
        /\ ~ENABLED ScriptNext

run_terminal == pc \in {"done", "aborted"}

\* In a terminal state the temporary directory and the chunk files in it
\* are gone; an aborted run has written no output file.
terminal_clean ==
    run_terminal =>
        /\ ~temp_dir
        /\ chunk_files = <<>>
        /\ pc = "aborted" => (output_file = None /\ exit_status = Some(1))

\* The step into a terminal state removes the directory, which existed
\* until then; nothing is written after it.
terminal_step ==
    /\ (~run_terminal /\ run_terminal') =>
          /\ temp_dir
          /\ ~temp_dir'
          /\ chunk_files' = <<>>
          /\ pc' = "aborted" => output_file' = None
    /\ run_terminal => UNCHANGED <<temp_dir, chunk_files, output_file>>

\* C36: in every terminal state of process_json_file, completed or aborted
\* through any of its handlers, the temporary directory with the chunk
\* files has been removed, and an aborted run, which never reached the
\* merge, has copied no chunk file into the output file.
C36_TempDirRemoved == []terminal_clean /\ [][terminal_step]_vars

\* A run aborted by the failure of one chunk after another chunk had
\* written its chunk file.
C36_Witness ==
    /\ pc = "aborted"
    /\ \E t \in DOMAIN tasks : tasks[t].cur.st = "done"
    /\ \E t \in DOMAIN tasks : tasks[t].cur.st = "failed"
    /\ ~temp_dir
    /\ chunk_files = <<>>
    /\ output_file = None

====
